---- MODULE Spec2Model ----
(***************************************************************************)
(* A state-machine model of the admission-control layer of WormGPT-api:    *)
(* the sliding-window RateLimiter (memory and Redis paths, the express     *)
(* middleware with per-user-key limits), the ResponseCacheService with its *)
(* fingerprint function and its callers (the POST /chat handler and        *)
(* getOrSet), and the APIKeyRotator.                                       *)
(* Time is the value Date.now() returns, in milliseconds.                  *)
(***************************************************************************)
EXTENDS Integers, Sequences, FiniteSets, TLC

VARIABLES
    now,        \* Date.now(), shared by the process and the Redis server
    redisUp,    \* whether the Redis server answers (environment)
    opts,       \* the options object handed to new RateLimiter(options)
    limiter,    \* the RateLimiter instance: windowMs, maxRequests, redisAvailable, memoryStore
    zset,       \* Redis: the sorted set stored under each rate-limit key
    zexpire,    \* Redis: the PEXPIRE deadline of each rate-limit key (NoExpiry: none)
    userKeys,   \* the user_api_keys table, one row per user API key
    req,        \* the middleware invocations in flight, one per slot
    started,    \* number of requests received so far
    log,        \* history of the answers the middleware gave, oldest first
    cache,      \* the ResponseCacheService singleton: ttl, enabled, redisAvailable, memoryCache, stats
    rkv,        \* Redis: the string stored under each cache key, with its SETEX deadline
    cops,       \* the cache calls awaiting Redis, one per slot
    cstarted,   \* number of cache calls made so far
    lastSet,    \* per cache key, the last set() call that returned (NoCall: none since delete/clear)
    lastGet,    \* the last get() call that returned (NoCall: none yet)
    chat,       \* the POST /chat handler or getOrSet call in progress, and how many were started
    chatLog,    \* history of what those calls did: cache accesses, upstream calls, answers
    rot,        \* the APIKeyRotator singleton: keys, currentIndex, keyHealth, initialized
    rotCalls,   \* number of rotator calls made so far
    rotOut,     \* what the last getNextKey call returned or threw (NoCall: none yet)
    keyCalls,   \* the last two generateKey calls, arguments and fingerprint (NoCall: none yet)
    ctxCall     \* the last ContextManager call (processMessages or chunkMessage),
                \* arguments and result (NoCall: none yet)

rlVars == <<opts, limiter, zset, zexpire, userKeys, req, started, log>>
cacheVars == <<cache, rkv, cops, cstarted, lastSet, lastGet>>
chatVars == <<chat, chatLog>>
rotVars == <<rot, rotCalls, rotOut>>
vars == <<now, redisUp, rlVars, cacheVars, chatVars, rotVars, keyCalls, ctxCall>>

----------------------------------------------------------------------------
(* Bounds of the model *)

MaxChecks == 3
MaxTicks == 2
TickSteps == {1000}
Procs == 1..2
MaxRequestsOpts == {0, 1, 2}
WindowMsOpts == {0, 1000}
MaxCacheCalls == 3
CacheKeys == {"f1", "f2"}
TtlArgs == {0, 1}
CacheTtlEnv == {0}
MaxChatCalls == 2
MaxRotCalls == 4
MaxRotTicks == 2
MaxListLen == 3
MaxContentLen == 7
MaxChunkSize == 5
RotTickSteps == {30000, 300000}
RotKeyPool == {"k1", "k2", "k3"}
RotEnvs == {<<>>, <<"k1">>, <<"k1", "k2">>, <<"k1", "k2", "k3">>}
FailureStatuses == {401, 403, 429, 500}

(* Program constants *)

DefaultWindowMs == 60000
DefaultMaxRequests == 100
ExpirySlackMs == 1000
MsPerSecond == 1000
StandardRateLimit == 1000
PremiumRateLimit == 10000
StandardDailyLimit == 100000
PremiumDailyLimit == -1
DefaultTtl == 3600
ChatTtl == 3600
CooldownMs == 60000
IdleThresholdMs == 300000
CounterCap == 1000
DefaultMaxContextLength == 30000
DefaultMaxMessages == 50
MarkerLength == 21

NoExpiry == -1

----------------------------------------------------------------------------
(* Callers: what the request headers carry *)

UserKeyCallers == {"wgpt_std", "wgpt_prem", "wgpt_revoked"}
PlainCallers == {"client1", "client2"}
Callers == PlainCallers \cup UserKeyCallers

\* apiKey && apiKey.startsWith('wgpt_')
IsUserKey(c) == c \in UserKeyCallers

\* RateLimiter.getKey: `${prefix}:user_key:${apiKey}` or `${prefix}:${apiKey || ip}`
getKey(c) == IF IsUserKey(c) THEN <<"user_key", c>> ELSE <<"key", c>>

RLKeys == {getKey(c) : c \in Callers}

\* options.x || dflt : a falsy option (0, undefined) takes the default
OrDefault(x, dflt) == IF x = 0 THEN dflt ELSE x

\* Math.max(0, x)
Max0(x) == IF x > 0 THEN x ELSE 0

\* a counter that is not capped
Min2Uncapped(a, b) == a

\* Math.min
Min2(a, b) == IF a < b THEN a ELSE b

\* Math.ceil(a / b), b > 0
CeilDiv(a, b) == -((-a) \div b)

----------------------------------------------------------------------------
(* The user_api_keys rows createUserKeys inserts *)

StandardKeyData ==
    [rate_limit_per_minute |-> StandardRateLimit, daily_limit |-> StandardDailyLimit,
     is_active |-> 1, is_unlimited |-> 0, usage_count |-> 0]

PremiumKeyData ==
    [rate_limit_per_minute |-> PremiumRateLimit, daily_limit |-> PremiumDailyLimit,
     is_active |-> 1, is_unlimited |-> 1, usage_count |-> 0]

InitUserKeys ==
    [c \in UserKeyCallers |->
        IF c = "wgpt_prem" THEN PremiumKeyData
        ELSE IF c = "wgpt_std" THEN StandardKeyData
        ELSE [StandardKeyData EXCEPT !.is_active = 0]]

\* validateKey, up to the daily-limit check: the row is found, active and under its
\* daily limit (expires_at is null for the keys createUserKeys inserts)
KeyValid(row) ==
    /\ row.is_active = 1
    /\ ~(row.daily_limit > 0 /\ row.usage_count >= row.daily_limit)

----------------------------------------------------------------------------
(* RateLimiter *)

IdleReq == [pc |-> "idle", caller |-> "", id |-> 0, now |-> 0, windowStart |-> 0, rate_limit |-> 0]

\* constructor: fields after new RateLimiter(options); init() has been started
\* and its ping is pending
NewLimiter(o) ==
    [windowMs |-> OrDefault(o.windowMs, DefaultWindowMs),
     maxRequests |-> OrDefault(o.maxRequests, DefaultMaxRequests),
     redisAvailable |-> FALSE,
     initPending |-> TRUE,
     memoryStore |-> [k \in RLKeys |-> <<>>]]

\* count < this.maxRequests
Allowed(count, maxRequests) == count < maxRequests

\* a remaining that is not clamped at 0
RemainingUnclamped(count, maxRequests) == maxRequests - count

\* Math.max(0, this.maxRequests - count)
Remaining(count, maxRequests) == Max0(maxRequests - count)

\* now + this.windowMs
Reset(t, windowMs) == t + windowMs

\* middleware: Math.ceil((limit.reset - Date.now()) / 1000)
RetryAfter(reset, t) == CeilDiv(reset - t, MsPerSecond)

\* what the middleware answers for a decision of checkLimit: next() (200) or 429
Answer(r, mode, count, recorded, maxRequests, windowMs, answeredAt) ==
    LET allowed == Allowed(count, maxRequests)
        reset == Reset(r.now, windowMs)
    IN  [id |-> r.id, caller |-> r.caller, kind |-> "decision", mode |-> mode,
         now |-> r.now, limit |-> maxRequests, count |-> count,
         allowed |-> allowed,
         remaining |-> Remaining(count, maxRequests),
         reset |-> reset, recorded |-> recorded, at |-> answeredAt,
         status |-> IF allowed THEN 200 ELSE 429,
         retryAfter |-> IF allowed THEN 0 ELSE RetryAfter(reset, answeredAt)]

\* an answer that carries no decision: 401 for an invalid key, or the rejected
\* promise of the middleware (status 0: no response is sent)
NoDecision(r, kind, status) ==
    [id |-> r.id, caller |-> r.caller, kind |-> kind, mode |-> "none",
     now |-> 0, limit |-> 0, count |-> 0, allowed |-> FALSE, remaining |-> 0,
     reset |-> 0, recorded |-> FALSE, at |-> 0, status |-> status, retryAfter |-> 0]

\* a filter that keeps every timestamp
PruneNothing(timestamps, windowStart) == timestamps

\* checkLimitMemory: record.timestamps.filter(ts => ts > windowStart)
PruneTimestamps(timestamps, windowStart) ==
    SelectSeq(timestamps, LAMBDA ts : ts > windowStart)

\* checkLimitMemory: the timestamps of the key's record after the check
TimestampsAfter(timestamps, t, windowStart, maxRequests) ==
    LET kept == PruneTimestamps(timestamps, windowStart)
    IN  IF Allowed(Len(kept), maxRequests) THEN Append(kept, t) ELSE kept

\* Redis ZREMRANGEBYSCORE key min max
ZRemRangeByScore(set, min, max) ==
    {e \in set : ~(min <= e.score /\ e.score <= max)}

\* Redis ZCARD
ZCard(set) == Cardinality(set)

\* Redis ZADD key score member
ZAdd(set, score, member) ==
    {e \in set : e.member # member} \cup {[score |-> score, member |-> member]}

\* checkLimitRedis: the replies of the MULTI/EXEC transaction
\* <<zremrangebyscore, zcard, zadd, pexpire>>, applied to the set as one unit
PipelineResults(set, windowStart) ==
    LET kept == ZRemRangeByScore(set, 0, windowStart)
    IN  <<Cardinality(set) - Cardinality(kept), ZCard(kept), 1, 1>>

\* checkLimitRedis: the set after the transaction
PipelineSet(set, t, windowStart, member) ==
    ZAdd(ZRemRangeByScore(set, 0, windowStart), t, member)

\* the count read from the reply of zremrangebyscore (results[0][1]) instead
PipelineCountOfRemoved(results) == results[1]

\* checkLimitRedis: const count = results[1][1]
PipelineCount(results) == results[2]

\* checkLimit, entered synchronously by the middleware with the limiter fields lim:
\* the Redis path builds and sends the transaction and awaits it; the memory path
\* decides at once
EnterCheck(p, r0, lim) ==
    LET r == [r0 EXCEPT !.now = now, !.windowStart = now - lim.windowMs]
        k == getKey(r.caller)
    IN  IF lim.redisAvailable
        THEN /\ req' = [req EXCEPT ![p] = [r EXCEPT !.pc = "exec"]]
             /\ limiter' = lim
             /\ UNCHANGED log
        ELSE LET before == lim.memoryStore[k]
                 kept == PruneTimestamps(before, r.windowStart)
                 after == TimestampsAfter(before, r.now, r.windowStart, lim.maxRequests)
             IN  /\ limiter' = [lim EXCEPT !.memoryStore[k] = after]
                 /\ log' = Append(log, Answer(r, "memory", Len(kept), after # kept,
                                              lim.maxRequests, lim.windowMs, now))
                 /\ req' = [req EXCEPT ![p] = IdleReq]

\* the invocations in flight are interchangeable: a new one takes the lowest free slot
FreeSlot(p) ==
    /\ req[p].pc = "idle"
    /\ \A q \in Procs : req[q].pc = "idle" => p <= q

\* middleware, request without a user API key: getKey, then checkLimit
ReceivePlain(p, c) ==
    /\ FreeSlot(p)
    /\ started < MaxChecks
    /\ ~IsUserKey(c)
    /\ started' = started + 1
    /\ EnterCheck(p, [IdleReq EXCEPT !.caller = c, !.id = started + 1], limiter)
    /\ UNCHANGED <<now, redisUp, opts, zset, zexpire, userKeys, cacheVars, chatVars, rotVars, keyCalls, ctxCall>>

\* middleware, request with a wgpt_ key: getUserKeyLimit -> validateKey reads the
\* row; a valid row goes on to updateLastUsed
ReceiveUserKey(p, c) ==
    /\ FreeSlot(p)
    /\ started < MaxChecks
    /\ IsUserKey(c)
    /\ KeyValid(userKeys[c])
    /\ started' = started + 1
    /\ req' = [req EXCEPT ![p] = [IdleReq EXCEPT !.pc = "update", !.caller = c,
                                    !.id = started + 1,
                                    !.rate_limit = userKeys[c].rate_limit_per_minute]]
    /\ UNCHANGED <<now, redisUp, opts, limiter, zset, zexpire, userKeys, log, cacheVars, chatVars, rotVars, keyCalls, ctxCall>>

\* validateKey answers {valid: false}: the middleware answers 401
ReceiveInvalidKey(p, c) ==
    /\ FreeSlot(p)
    /\ started < MaxChecks
    /\ IsUserKey(c)
    /\ ~KeyValid(userKeys[c])
    /\ started' = started + 1
    /\ log' = Append(log, NoDecision([IdleReq EXCEPT !.caller = c, !.id = started + 1],
                                     "invalid", 401))
    /\ UNCHANGED <<now, redisUp, opts, limiter, zset, zexpire, userKeys, req, cacheVars, chatVars, rotVars, keyCalls, ctxCall>>

\* updateLastUsed increments usage_count and writes api_key_usage to Redis; then the
\* middleware sets this.maxRequests = customLimit.limit and calls checkLimit
ValidateUpdate(p) ==
    /\ req[p].pc = "update"
    /\ redisUp
    /\ userKeys' = [userKeys EXCEPT ![req[p].caller].usage_count = @ + 1]
    /\ EnterCheck(p, req[p], [limiter EXCEPT !.maxRequests = req[p].rate_limit])
    /\ UNCHANGED <<now, redisUp, opts, zset, zexpire, started, cacheVars, chatVars, rotVars, keyCalls, ctxCall>>

\* updateLastUsed: the row is updated, redisClient.setex rejects, getUserKeyLimit
\* catches and answers {valid: false}: 401
ValidateUpdateFail(p) ==
    /\ req[p].pc = "update"
    /\ ~redisUp
    /\ userKeys' = [userKeys EXCEPT ![req[p].caller].usage_count = @ + 1]
    /\ log' = Append(log, NoDecision(req[p], "invalid", 401))
    /\ req' = [req EXCEPT ![p] = IdleReq]
    /\ UNCHANGED <<now, redisUp, opts, limiter, zset, zexpire, started, cacheVars, chatVars, rotVars, keyCalls, ctxCall>>

\* checkLimitRedis: Redis executes the transaction; the awaiting check resumes,
\* decides with the fields the limiter has then, and the middleware answers
ExecRedis(p) ==
    /\ req[p].pc = "exec"
    /\ redisUp
    /\ LET r == req[p]
           k == getKey(r.caller)
           results == PipelineResults(zset[k], r.windowStart)
       IN  /\ zset' = [zset EXCEPT ![k] = PipelineSet(@, r.now, r.windowStart, r.id)]
           /\ zexpire' = [zexpire EXCEPT ![k] = now + limiter.windowMs + ExpirySlackMs]
           /\ log' = Append(log, Answer(r, "redis", PipelineCount(results),
                                        zset'[k] # ZRemRangeByScore(zset[k], 0, r.windowStart),
                                        limiter.maxRequests, limiter.windowMs, now))
    /\ req' = [req EXCEPT ![p] = IdleReq]
    /\ UNCHANGED <<now, redisUp, opts, limiter, userKeys, started, cacheVars, chatVars, rotVars, keyCalls, ctxCall>>

\* checkLimitRedis: pipeline.exec() rejects; nothing catches it, the promise of the
\* middleware rejects and no answer is sent
ExecFail(p) ==
    /\ req[p].pc = "exec"
    /\ ~redisUp
    /\ log' = Append(log, NoDecision(req[p], "threw", 0))
    /\ req' = [req EXCEPT ![p] = IdleReq]
    /\ UNCHANGED <<now, redisUp, opts, limiter, zset, zexpire, userKeys, started, cacheVars, chatVars, rotVars, keyCalls, ctxCall>>

\* init: redisClient.ping() resolves
InitPingOk ==
    /\ limiter.initPending
    /\ redisUp
    /\ limiter' = [limiter EXCEPT !.initPending = FALSE, !.redisAvailable = TRUE]
    /\ UNCHANGED <<now, redisUp, opts, zset, zexpire, userKeys, req, started, log, cacheVars, chatVars, rotVars, keyCalls, ctxCall>>

\* init: redisClient.ping() rejects, the catch logs it
InitPingFail ==
    /\ limiter.initPending
    /\ ~redisUp
    /\ limiter' = [limiter EXCEPT !.initPending = FALSE]
    /\ UNCHANGED <<now, redisUp, opts, zset, zexpire, userKeys, req, started, log, cacheVars, chatVars, rotVars, keyCalls, ctxCall>>

----------------------------------------------------------------------------
(* ResponseCacheService *)

\* an absent value is the empty sequence, a present one the sequence holding it
NoEntry == <<>>
NoCall == <<>>
Some(x) == <<x>>
The(opt) == opt[1]

\* the null a get() answers on a miss
Null == <<>>

NoData == [response |-> Null, expires |-> 0, created |-> 0]

\* the commands of the one Redis connection are answered in the order they were
\* sent: one cache call awaits Redis at a time
CProcs == {1}

IdleOp == [pc |-> "idle", key |-> "", data |-> NoData, ttl |-> 0]

\* constructor: parseInt(process.env.CACHE_TTL) || 3600, CACHE_ENABLED !== 'false';
\* init() has been started and its ping is pending
NewCache(ttlEnv, enabled) ==
    [ttl |-> OrDefault(ttlEnv, DefaultTtl),
     enabled |-> enabled,
     redisAvailable |-> FALSE,
     initPending |-> TRUE,
     sweeping |-> FALSE,
     memoryCache |-> [k \in CacheKeys |-> NoEntry],
     stats |-> [hits |-> 0, misses |-> 0, size |-> 0]]

\* the response object the n-th call hands to set: every call hands over its own
Response(n) == <<n>>

\* JSON.stringify / JSON.parse of the stored object
Stringify(data) == [json |-> data]
Parse(text) == text.json

\* set: ttl = ttl || this.ttl
EffectiveTtl(ttl, dflt) == OrDefault(ttl, dflt)

\* set: the object stored: response, expires = Date.now() + ttl * 1000, created
CacheData(response, ttl, t) ==
    [response |-> response, expires |-> t + ttl * MsPerSecond, created |-> t]

\* get accepts a stored object whatever its expires field says
StillValidAlways(data, t) == TRUE

\* get: data.expires > Date.now()
StillValid(data, t) == data.expires > t

\* Map.size
MapSize(m) == Cardinality({k \in DOMAIN m : m[k] # NoEntry})

CacheFreeSlot(p) ==
    /\ cops[p].pc = "idle"
    /\ \A q \in CProcs : cops[q].pc = "idle"

CacheCall == cstarted < MaxCacheCalls /\ cstarted' = cstarted + 1

\* a catch block that passes the error on to the caller
CatchRethrowsAlways == TRUE

\* get and set: catch ( err ) { console.error(...) }, the error is logged and the call
\* goes on to its return
CatchRethrows == FALSE

\* what a returned get() leaves for the properties to read; call is the number of the
\* call (a call that awaits Redis is answered before the next call starts), failed
\* says a Redis command of the call was rejected, raised that the call threw
GetRecord(k, result, found, expires, mode, failed, call) ==
    [key |-> k, result |-> result, at |-> now, found |-> found, expires |-> expires,
     mode |-> mode, failed |-> failed, raised |-> failed /\ CatchRethrows, call |-> call]

\* what a returned set() leaves for the properties to read
SetRecord(response, ttl, at, mode, failed, call) ==
    [response |-> response, ttl |-> ttl, at |-> at, mode |-> mode, failed |-> failed,
     raised |-> failed /\ CatchRethrows, call |-> call]

\* init: redisClient.ping() resolves; the cleanup interval is started
CacheInitPingOk ==
    /\ cache.initPending
    /\ redisUp
    /\ cache' = [cache EXCEPT !.initPending = FALSE, !.redisAvailable = TRUE,
                              !.sweeping = TRUE]
    /\ UNCHANGED <<now, redisUp, rlVars, chatVars, rotVars, keyCalls, ctxCall, rkv, cops, cstarted, lastSet, lastGet>>

\* init: redisClient.ping() rejects, the catch logs it
CacheInitPingFail ==
    /\ cache.initPending
    /\ ~redisUp
    /\ cache' = [cache EXCEPT !.initPending = FALSE]
    /\ UNCHANGED <<now, redisUp, rlVars, chatVars, rotVars, keyCalls, ctxCall, rkv, cops, cstarted, lastSet, lastGet>>

\* get: if ( ! this.enabled ) return null
GetDisabled(k) ==
    /\ CacheCall
    /\ ~cache.enabled
    /\ lastGet' = Some(GetRecord(k, Null, FALSE, 0, "disabled", FALSE, cstarted + 1))
    /\ UNCHANGED <<now, redisUp, rlVars, rotVars, keyCalls, ctxCall, cache, rkv, cops, lastSet>>

\* get, memory path
GetMemory(k) ==
    /\ CacheCall
    /\ cache.enabled
    /\ ~cache.redisAvailable
    /\ LET cached == cache.memoryCache[k]
       IN  IF cached # NoEntry /\ StillValid(The(cached), now)
           THEN /\ cache' = [cache EXCEPT !.stats.hits = @ + 1]
                /\ lastGet' = Some(GetRecord(k, The(cached).response, TRUE,
                                             The(cached).expires, "memory", FALSE, cstarted + 1))
           ELSE /\ cache' = [cache EXCEPT !.stats.misses = @ + 1]
                /\ lastGet' = Some(GetRecord(k, Null, cached # NoEntry,
                                             IF cached # NoEntry THEN The(cached).expires
                                             ELSE 0,
                                             "memory", FALSE, cstarted + 1))
    /\ UNCHANGED <<now, redisUp, rlVars, rotVars, keyCalls, ctxCall, rkv, cops, lastSet>>

\* get, Redis path: redisClient.get(key) is sent and awaited
GetRedisCall(p, k) ==
    /\ CacheCall
    /\ CacheFreeSlot(p)
    /\ cache.enabled
    /\ cache.redisAvailable
    /\ cops' = [cops EXCEPT ![p] = [IdleOp EXCEPT !.pc = "get", !.key = k]]
    /\ UNCHANGED <<now, redisUp, rlVars, rotVars, keyCalls, ctxCall, cache, rkv, lastSet, lastGet>>

\* get, Redis path: Redis answers and get resumes
GetRedisReply(p) ==
    /\ cops[p].pc = "get"
    /\ redisUp
    /\ LET k == cops[p].key
           cached == rkv[k]
       IN  IF cached # NoEntry
           THEN LET data == Parse(The(cached).value)
                IN  IF StillValid(data, now)
                    THEN /\ cache' = [cache EXCEPT !.stats.hits = @ + 1]
                         /\ lastGet' = Some(GetRecord(k, data.response, TRUE, data.expires,
                                                      "redis", FALSE, cstarted))
                    ELSE /\ cache' = [cache EXCEPT !.stats.hits = @ + 1,
                                                   !.stats.misses = @ + 1]
                         /\ lastGet' = Some(GetRecord(k, Null, TRUE, data.expires,
                                                      "redis", FALSE, cstarted))
           ELSE /\ cache' = [cache EXCEPT !.stats.misses = @ + 1]
                /\ lastGet' = Some(GetRecord(k, Null, FALSE, 0, "redis", FALSE, cstarted))
    /\ cops' = [cops EXCEPT ![p] = IdleOp]
    /\ UNCHANGED <<now, redisUp, rlVars, rotVars, keyCalls, ctxCall, rkv, cstarted, lastSet>>

\* get, Redis path: redisClient.get rejects; the catch logs it and get answers null
GetRedisFail(p) ==
    /\ cops[p].pc = "get"
    /\ ~redisUp
    /\ cache' = [cache EXCEPT !.stats.misses = @ + 1]
    /\ lastGet' = Some(GetRecord(cops[p].key, Null, FALSE, 0, "redis", TRUE, cstarted))
    /\ cops' = [cops EXCEPT ![p] = IdleOp]
    /\ UNCHANGED <<now, redisUp, rlVars, rotVars, keyCalls, ctxCall, rkv, cstarted, lastSet>>

\* set: if ( ! this.enabled ) return
SetDisabled(k, response, ttl) ==
    /\ CacheCall
    /\ ~cache.enabled
    /\ lastSet' = [lastSet EXCEPT ![k] = Some(SetRecord(response, ttl, now, "disabled", FALSE, cstarted + 1))]
    /\ UNCHANGED <<now, redisUp, rlVars, rotVars, keyCalls, ctxCall, cache, rkv, cops, lastGet>>

\* set, memory path
SetMemory(k, response, ttl) ==
    /\ CacheCall
    /\ cache.enabled
    /\ ~cache.redisAvailable
    /\ LET data == CacheData(response, EffectiveTtl(ttl, cache.ttl), now)
           m == [cache.memoryCache EXCEPT ![k] = Some(data)]
       IN  cache' = [cache EXCEPT !.memoryCache = m, !.stats.size = MapSize(m)]
    /\ lastSet' = [lastSet EXCEPT ![k] = Some(SetRecord(response, ttl, now, "memory", FALSE, cstarted + 1))]
    /\ UNCHANGED <<now, redisUp, rlVars, rotVars, keyCalls, ctxCall, rkv, cops, lastGet>>

\* set, Redis path: redisClient.setex(key, ttl, JSON.stringify(data)) is sent and awaited
SetRedisCall(p, k, response, ttl) ==
    /\ CacheCall
    /\ CacheFreeSlot(p)
    /\ cache.enabled
    /\ cache.redisAvailable
    /\ cops' = [cops EXCEPT ![p] =
                   [pc |-> "set", key |-> k,
                    data |-> CacheData(response, EffectiveTtl(ttl, cache.ttl), now),
                    ttl |-> ttl]]
    /\ UNCHANGED <<now, redisUp, rlVars, rotVars, keyCalls, ctxCall, cache, rkv, lastSet, lastGet>>

\* set, Redis path: Redis executes SETEX (its deadline runs from now) and set returns
SetRedisApply(p) ==
    /\ cops[p].pc = "set"
    /\ redisUp
    /\ LET o == cops[p]
       IN  /\ rkv' = [rkv EXCEPT ![o.key] =
                         Some([value |-> Stringify(o.data),
                               expireAt |-> now + EffectiveTtl(o.ttl, cache.ttl) * MsPerSecond])]
           /\ lastSet' = [lastSet EXCEPT ![o.key] =
                             Some(SetRecord(o.data.response, o.ttl, o.data.created,
                                            "redis", FALSE, cstarted))]
    /\ cops' = [cops EXCEPT ![p] = IdleOp]
    /\ UNCHANGED <<now, redisUp, rlVars, rotVars, keyCalls, ctxCall, cache, cstarted, lastGet>>

\* set, Redis path: redisClient.setex rejects; the catch logs it and set returns
SetRedisFail(p) ==
    /\ cops[p].pc = "set"
    /\ ~redisUp
    /\ LET o == cops[p]
       IN  lastSet' = [lastSet EXCEPT ![o.key] =
                          Some(SetRecord(o.data.response, o.ttl, o.data.created,
                                         "redis", TRUE, cstarted))]
    /\ cops' = [cops EXCEPT ![p] = IdleOp]
    /\ UNCHANGED <<now, redisUp, rlVars, rotVars, keyCalls, ctxCall, cache, rkv, cstarted, lastGet>>

\* delete, memory path (stats.size is not refreshed)
DeleteMemory(k) ==
    /\ CacheCall
    /\ ~cache.redisAvailable
    /\ cache' = [cache EXCEPT !.memoryCache[k] = NoEntry]
    /\ lastSet' = [lastSet EXCEPT ![k] = NoCall]
    /\ UNCHANGED <<now, redisUp, rlVars, chatVars, rotVars, keyCalls, ctxCall, rkv, cops, lastGet>>

\* delete, Redis path: redisClient.del(key); a rejection is caught and logged
DeleteRedis(k) ==
    /\ CacheCall
    /\ \E p \in CProcs : CacheFreeSlot(p)
    /\ cache.redisAvailable
    /\ rkv' = IF redisUp THEN [rkv EXCEPT ![k] = NoEntry] ELSE rkv
    /\ lastSet' = [lastSet EXCEPT ![k] = NoCall]
    /\ UNCHANGED <<now, redisUp, rlVars, chatVars, rotVars, keyCalls, ctxCall, cache, cops, lastGet>>

\* clear, memory path
ClearMemory ==
    /\ CacheCall
    /\ ~cache.redisAvailable
    /\ cache' = [cache EXCEPT !.memoryCache = [k \in CacheKeys |-> NoEntry],
                              !.stats.size = 0]
    /\ lastSet' = [k \in CacheKeys |-> NoCall]
    /\ UNCHANGED <<now, redisUp, rlVars, chatVars, rotVars, keyCalls, ctxCall, rkv, cops, lastGet>>

\* clear, Redis path: keys('cache:qwen:*') then del(keys); a rejection is caught and
\* logged before stats.size is reset
ClearRedis ==
    /\ CacheCall
    /\ \E p \in CProcs : CacheFreeSlot(p)
    /\ cache.redisAvailable
    /\ IF redisUp
       THEN /\ rkv' = [k \in CacheKeys |-> NoEntry]
            /\ cache' = [cache EXCEPT !.stats.size = 0]
       ELSE UNCHANGED <<rkv, cache>>
    /\ lastSet' = [k \in CacheKeys |-> NoCall]
    /\ UNCHANGED <<now, redisUp, rlVars, chatVars, rotVars, keyCalls, ctxCall, cops, lastGet>>

\* cleanup, run by the interval init starts once the ping has resolved
Cleanup ==
    /\ cache.sweeping
    /\ IF ~cache.redisAvailable
       THEN LET m == [k \in CacheKeys |->
                        IF cache.memoryCache[k] # NoEntry
                           /\ The(cache.memoryCache[k]).expires < now
                        THEN NoEntry ELSE cache.memoryCache[k]]
            IN  cache' = [cache EXCEPT !.memoryCache = m, !.stats.size = MapSize(m)]
       ELSE UNCHANGED cache
    /\ UNCHANGED <<now, redisUp, rlVars, chatVars, rotVars, keyCalls, ctxCall, rkv, cops, cstarted, lastSet, lastGet>>

----------------------------------------------------------------------------
(* generateKey: the fingerprint of a request *)

\* the JavaScript values handed to generateKey; a number is written as its literal
Str(s) == [type |-> "string", text |-> s, items |-> <<>>]
Arr(items) == [type |-> "array", text |-> "", items |-> items]
Num(literal) == [type |-> "number", text |-> literal, items |-> <<>>]
NaN == [type |-> "NaN", text |-> "", items |-> <<>>]
Infinity == [type |-> "Infinity", text |-> "", items |-> <<>>]
JsNull == [type |-> "null", text |-> "", items |-> <<>>]
Undefined == [type |-> "undefined", text |-> "", items |-> <<>>]

\* JSON text: a string in quotes, or a bare literal (a number, null)
Quoted(s) == [quoted |-> TRUE, text |-> s]
Bare(s) == [quoted |-> FALSE, text |-> s]

\* JSON.stringify of an array of strings that need no escaping, as a string
RECURSIVE JoinQuoted(_, _)
JoinQuoted(items, i) ==
    IF i > Len(items) THEN ""
    ELSE (IF i > 1 THEN "," ELSE "") \o "\"" \o items[i] \o "\"" \o JoinQuoted(items, i + 1)

StringifyArray(items) == "[" \o JoinQuoted(items, 1) \o "]"

\* typeof message === 'string' ? message : JSON.stringify(message)
MessageText(message) ==
    IF message.type = "string" THEN message.text ELSE StringifyArray(message.items)

\* JSON.stringify of a property value: NaN and Infinity are written null; the
\* property of an undefined value is left out (NoEntry)
StringifyValue(v) ==
    CASE v.type = "string" -> Some(Quoted(v.text))
      [] v.type = "number" -> Some(Bare(v.text))
      [] v.type \in {"NaN", "Infinity", "null"} -> Some(Bare("null"))
      [] v.type = "undefined" -> NoEntry
      [] v.type = "array" -> Some(Bare(StringifyArray(v.items)))

\* "name":value, or nothing for a property left out
Property(name, v) ==
    IF StringifyValue(v) = NoEntry THEN <<>>
    ELSE <<[name |-> name, value |-> The(StringifyValue(v))]>>

\* the object without its temperature property
KeyDataNoTemperature(message, model, options) ==
    Property("message", Str(MessageText(message)))
        \o Property("model", model)
        \o Property("system_prompt", options.system_prompt)

\* JSON.stringify({ message: ..., model, temperature: options.temperature,
\* system_prompt: options.system_prompt })
KeyData(message, model, options) ==
    Property("message", Str(MessageText(message)))
        \o Property("model", model)
        \o Property("temperature", options.temperature)
        \o Property("system_prompt", options.system_prompt)

\* crypto.createHash('sha256').update(data).digest('hex').slice(0, 16): 64 bits of the
\* digest, taken to differ for the different texts of the model
Sha256Hex16(data) == [sha256 |-> data]

generateKey(message, model, options) ==
    [prefix |-> "cache:qwen:", hex |-> Sha256Hex16(KeyData(message, model, options))]

KeyMessages == {Str("hi"), Str("[\"hi\"]"), Arr(<<"hi">>), Arr(<<"hi", "yo">>)}
KeyModels == {Str("qwen-a"), Str("qwen-b")}
KeyTemperatures == {Num("0.7"), Num("1"), NaN, Infinity, JsNull, Undefined}
KeyPrompts == {Undefined, Str(""), Str("be brief")}

\* a call of generateKey; the call before it is kept for comparison
GenerateKeyCall(message, model, temperature, system_prompt) ==
    /\ keyCalls' = [prev |-> keyCalls.last,
                    last |-> Some([message |-> message, model |-> model,
                                   temperature |-> temperature,
                                   system_prompt |-> system_prompt,
                                   key |-> generateKey(message, model,
                                              [temperature |-> temperature,
                                               system_prompt |-> system_prompt])])]
    /\ UNCHANGED <<now, redisUp, rlVars, cacheVars, chatVars, rotVars, ctxCall>>

----------------------------------------------------------------------------
(* ContextManager: processMessages, the shaping of a conversation to the token
   ceiling. A content is known by its number of characters; NoContent is the
   content of a message that has none (undefined) *)

NoContent == -1

\* a content that can never be sliced
HasContentNever(m) == FALSE

\* content is a string: content.slice exists
HasContent(m) == m.len # NoContent

\* estimateTokens: if ( ! text ) return 0; Math.ceil(text.length / 4)
estimateTokens(len) == IF len = NoContent \/ len = 0 THEN 0 ELSE CeilDiv(len, 4)

\* constructor: options.maxContextLength || 30000, options.maxMessages || 50
NewContextManager(options) ==
    [maxContextLength |-> OrDefault(options.maxContextLength, DefaultMaxContextLength),
     maxMessages |-> OrDefault(options.maxMessages, DefaultMaxMessages)]

\* String.prototype.slice(0, end) on a string of len characters: its length
SliceHead(len, end) ==
    LET to == IF end < 0 THEN Max0(len + end) ELSE Min2(end, len)
    IN  to

\* String.prototype.slice(start) on a string of len characters: its length
SliceTail(len, start) ==
    LET from == IF start < 0 THEN Max0(len + start) ELSE Min2(start, len)
    IN  len - from

\* Math.floor(maxChars * 0.3), Math.floor(maxChars * 0.7): the floor of the exact
\* product, which is what the floating-point product gives for every maxChars that
\* the ceilings and content lengths below lead to
KeepStart(maxChars) == (3 * maxChars) \div 10
KeepEnd(maxChars) == (7 * maxChars) \div 10

\* truncateMessage(message, maxTokens): the message, its truncation, or the TypeError
\* of undefined.slice
truncateMessage(message, maxTokens) ==
    IF estimateTokens(message.len) <= maxTokens THEN [threw |-> FALSE, message |-> message]
    ELSE IF ~HasContent(message) THEN [threw |-> TRUE, message |-> message]
    ELSE LET maxChars == maxTokens * 4
             kept == SliceHead(message.len, KeepStart(maxChars)) + MarkerLength
                         + SliceTail(message.len, -KeepEnd(maxChars))
         IN  [threw |-> FALSE,
              message |-> [message EXCEPT !.len = kept, !.truncated = TRUE]]

\* the list handed to processMessages: each message with its role, the length of its
\* content and its position in the list
Numbered(messages) ==
    [i \in DOMAIN messages |->
        [role |-> messages[i].role, len |-> messages[i].len, truncated |-> FALSE, pos |-> i]]

\* let processed = systemMessage ? [systemMessage] : [], without the system message
StartEmpty(sys) == <<>>

\* let processed = systemMessage ? [systemMessage] : []
StartWith(sys) == IF sys # NoEntry THEN <<The(sys)>> ELSE <<>>

\* messages.find(m => m.role === 'system')
FindSystem(messages) ==
    IF \E i \in DOMAIN messages : messages[i].role = "system"
    THEN Some(messages[CHOOSE i \in DOMAIN messages :
                          /\ messages[i].role = "system"
                          /\ \A j \in 1..(i - 1) : messages[j].role # "system"])
    ELSE NoEntry

IsNotSystem(m) == m.role # "system"

\* a slice that keeps the oldest n messages
FirstN(seq, n) == SubSeq(seq, 1, Min2(n, Len(seq)))

\* userMessages.slice(-this.maxMessages)
LastN(seq, n) == SubSeq(seq, Max0(Len(seq) - n) + 1, Len(seq))

\* the loop from the newest message (i = length - 1) to the oldest
RECURSIVE Window(_, _, _, _, _)
Window(recent, i, processed, currentTokens, maxTokens) ==
    IF i = 0 THEN [threw |-> FALSE, processed |-> processed, currentTokens |-> currentTokens]
    ELSE LET message == recent[i]
             messageTokens == estimateTokens(message.len)
         IN  IF currentTokens + messageTokens > maxTokens
             THEN LET truncated == truncateMessage(message, maxTokens - currentTokens - 100)
                  IN  [threw |-> truncated.threw,
                       processed |-> <<truncated.message>> \o processed,
                       currentTokens |-> currentTokens]
             ELSE Window(recent, i - 1, <<message>> \o processed,
                         currentTokens + messageTokens, maxTokens)

\* processMessages(messages, options) on the manager mgr
processMessages(mgr, messages, options) ==
    LET maxTokens == OrDefault(options.maxTokens, mgr.maxContextLength)
        systemMessage == FindSystem(messages)
        userMessages == SelectSeq(messages, IsNotSystem)
        recentMessages == LastN(userMessages, mgr.maxMessages)
        w == Window(recentMessages, Len(recentMessages), StartWith(systemMessage),
                    IF systemMessage # NoEntry THEN estimateTokens(The(systemMessage).len)
                    ELSE 0,
                    maxTokens)
    IN  [threw |-> w.threw,
         messages |-> IF w.threw THEN <<>> ELSE w.processed,
         tokensUsed |-> w.currentTokens,
         tokensRemaining |-> maxTokens - w.currentTokens,
         wasTruncated |-> Len(userMessages) > Len(w.processed),
         originalCount |-> Len(userMessages),
         processedCount |-> Len(SelectSeq(w.processed, IsNotSystem)),
         maxTokens |-> maxTokens]

ContextRoles == {"system", "user"}
ContentLengths == {NoContent, 0, 200, 800}
MaxTokensOpts == {0, 150, 300}
MaxMessagesOpts == {0, 2}

InputMessages == [role : ContextRoles, len : ContentLengths]

MessageLists == UNION {[1..n -> InputMessages] : n \in 0..MaxListLen}

\* new ContextManager({maxMessages}) and processMessages(messages, {maxTokens}); the
\* call keeps no state, so one call is looked at
ProcessMessagesCall(messages, maxTokens, maxMessages) ==
    /\ ctxCall = NoCall
    /\ ctxCall' = Some([messages |-> Numbered(messages),
                        result |-> processMessages(
                                       NewContextManager([maxContextLength |-> 0,
                                                          maxMessages |-> maxMessages]),
                                       Numbered(messages), [maxTokens |-> maxTokens])])
    /\ UNCHANGED <<now, redisUp, rlVars, cacheVars, chatVars, rotVars, keyCalls>>

\* chunkMessage: a content is the sequence of its characters

\* the characters of a content: the sentence end and any other character
ChunkAlphabet == {".", "a"}

Contents == UNION {[1..n -> ChunkAlphabet] : n \in 0..MaxContentLen}

\* String.prototype.slice(0, n), n >= 0
SliceTo(s, n) == SubSeq(s, 1, Min2(n, Len(s)))

\* String.prototype.slice(n), n >= 0
SliceFrom(s, n) == SubSeq(s, n + 1, Len(s))

\* String.prototype.lastIndexOf(ch), 0-based, -1 when absent
LastIndexOf(s, ch) ==
    IF \E i \in DOMAIN s : s[i] = ch
    THEN (CHOOSE i \in DOMAIN s : s[i] = ch /\ \A j \in (i + 1)..Len(s) : s[j] # ch) - 1
    ELSE -1

\* the next chunk: remaining.slice(0, maxChunkSize), cut after its last '.' when more
\* text follows and lastPeriod > maxChunkSize * 0.5
NextChunk(remaining, maxChunkSize) ==
    LET chunk == SliceTo(remaining, maxChunkSize)
        lastPeriod == LastIndexOf(chunk, ".")
    IN  IF Len(remaining) > maxChunkSize /\ 2 * lastPeriod > maxChunkSize
        THEN SliceTo(chunk, lastPeriod + 1)
        ELSE chunk

\* a loop that moves on by the chunk size whatever the chunk taken
AdvanceByChunkSize(remaining, chunk, maxChunkSize) == SliceFrom(remaining, maxChunkSize)

\* remaining = remaining.slice(chunk.length)
Advance(remaining, chunk, maxChunkSize) == SliceFrom(remaining, Len(chunk))

\* while ( remaining.length > 0 ) { ... chunks.push(chunk) ... }
RECURSIVE ChunkLoop(_, _)
ChunkLoop(remaining, maxChunkSize) ==
    IF Len(remaining) = 0 THEN <<>>
    ELSE LET chunk == NextChunk(remaining, maxChunkSize)
         IN  <<chunk>> \o ChunkLoop(Advance(remaining, chunk, maxChunkSize), maxChunkSize)

\* chunkMessage(content, maxChunkSize): !content holds of the empty string
chunkMessage(content, maxChunkSize) ==
    IF Len(content) = 0 \/ Len(content) <= maxChunkSize THEN <<content>>
    ELSE ChunkLoop(content, maxChunkSize)

\* chunkMessage(content, maxChunkSize); the call keeps no state, so one call is
\* looked at
ChunkMessageCall(content, maxChunkSize) ==
    /\ ctxCall = NoCall
    /\ ctxCall' = Some([content |-> content, maxChunkSize |-> maxChunkSize,
                        chunks |-> chunkMessage(content, maxChunkSize)])
    /\ UNCHANGED <<now, redisUp, rlVars, cacheVars, chatVars, rotVars, keyCalls>>

----------------------------------------------------------------------------
(* The callers of the cache: the POST /chat handler and getOrSet *)

\* the payload '' (or 0): a value JavaScript takes as false
EmptyPayload == Response(0)

\* if ( cachedResponse ) / if ( cached )
Truthy(v) == v # Null /\ v # EmptyPayload

IdleChat ==
    [pc |-> "idle", n |-> 0, kind |-> "", stream |-> FALSE, image |-> FALSE,
     cache |-> FALSE, key |-> "", payload |-> Null]

\* a call that starts: the handler with its body fields stream, image and cache, or
\* getOrSet(key, generator)
NewChat(kind, k, stream, image, cacheFlag) ==
    [pc |-> "idle", n |-> chat.n + 1, kind |-> kind, stream |-> stream, image |-> image,
     cache |-> cacheFlag, key |-> k, payload |-> Null]

ChatInputs == {"chat"} \X CacheKeys \X BOOLEAN \X BOOLEAN \X BOOLEAN

GetOrSetInputs == {"getOrSet"} \X CacheKeys \X {FALSE} \X {FALSE} \X {TRUE}

\* handler: if ( cache && !stream && !image ); getOrSet always looks up
DoesLookup(c) == c.kind = "getOrSet" \/ (c.cache /\ ~c.stream /\ ~c.image)

\* handler: if ( stream ) ... return, then if ( cache ); getOrSet always stores
DoesStore(c) == c.kind = "getOrSet" \/ (~c.stream /\ c.cache)

\* handler: cacheService.set(cacheKey, ..., 3600); getOrSet: ttl = null
TtlOf(c) == IF c.kind = "chat" THEN ChatTtl ELSE 0

\* what a call did, for the properties to read
ChatEvent(c, ev, value, cached) ==
    [n |-> c.n, kind |-> c.kind, stream |-> c.stream, image |-> c.image,
     cache |-> c.cache, key |-> c.key, ev |-> ev, value |-> value, cached |-> cached]

\* after the lookup: a truthy result is answered with cached: true, anything else goes
\* on to the upstream call (the generator)
AfterGet(c, result) ==
    IF Truthy(result)
    THEN /\ chat' = [c EXCEPT !.pc = "idle"]
         /\ chatLog' = chatLog \o <<ChatEvent(c, "get", result, FALSE),
                                    ChatEvent(c, "answer", result, TRUE)>>
    ELSE /\ chat' = [c EXCEPT !.pc = "upstream"]
         /\ chatLog' = Append(chatLog, ChatEvent(c, "get", result, FALSE))

\* after the store: the answer with cached: false
AfterSet(c) ==
    /\ chat' = [c EXCEPT !.pc = "idle"]
    /\ chatLog' = chatLog \o <<ChatEvent(c, "set", c.payload, FALSE),
                               ChatEvent(c, "answer", c.payload, FALSE)>>

\* a call starts and looks up; the cache is disabled or in memory mode and answers at once
ChatLookupSync(in) ==
    LET c == NewChat(in[1], in[2], in[3], in[4], in[5])
    IN  /\ chat.pc = "idle"
        /\ chat.n < MaxChatCalls
        /\ DoesLookup(c)
        /\ (GetDisabled(c.key) \/ GetMemory(c.key))
        /\ AfterGet(c, The(lastGet').result)

\* a call starts and looks up in Redis mode: it awaits redisClient.get
ChatLookupRedis(p, in) ==
    LET c == NewChat(in[1], in[2], in[3], in[4], in[5])
    IN  /\ chat.pc = "idle"
        /\ chat.n < MaxChatCalls
        /\ DoesLookup(c)
        /\ GetRedisCall(p, c.key)
        /\ chat' = [c EXCEPT !.pc = "awaitGet"]
        /\ UNCHANGED chatLog

\* Redis answers the lookup, or the command is rejected and get answers null
ChatLookupReply(p) ==
    /\ chat.pc = "awaitGet"
    /\ (GetRedisReply(p) \/ GetRedisFail(p))
    /\ AfterGet(chat, The(lastGet').result)

\* the handler starts for a streaming request, one with an image, or one with
\* cache: false: no lookup
ChatSkipLookup(in) ==
    LET c == NewChat(in[1], in[2], in[3], in[4], in[5])
    IN  /\ chat.pc = "idle"
        /\ chat.n < MaxChatCalls
        /\ ~DoesLookup(c)
        /\ chat' = [c EXCEPT !.pc = "upstream"]
        /\ UNCHANGED <<now, redisUp, rlVars, cacheVars, chatLog, rotVars, keyCalls, ctxCall>>

\* what aiChatService.complete (response?.message?.content || response, never falsy
\* for a response object) or the generator (any value) can resolve with
Payloads(c) ==
    IF c.kind = "chat" THEN {Response(c.n)} ELSE {Response(c.n), EmptyPayload}

\* the upstream call resolves; a streaming request or one with cache: false is
\* answered without a store
ChatAnswerNoStore(v) ==
    /\ chat.pc = "upstream"
    /\ v \in Payloads(chat)
    /\ ~DoesStore(chat)
    /\ chat' = [chat EXCEPT !.pc = "idle", !.payload = v]
    /\ chatLog' = chatLog \o <<ChatEvent(chat, "upstream", v, FALSE),
                               ChatEvent(chat, "answer", v, FALSE)>>
    /\ UNCHANGED <<now, redisUp, rlVars, cacheVars, rotVars, keyCalls, ctxCall>>

\* the upstream call resolves and the payload is stored; the cache is disabled or in
\* memory mode
ChatStoreSync(v) ==
    /\ chat.pc = "upstream"
    /\ v \in Payloads(chat)
    /\ DoesStore(chat)
    /\ (SetDisabled(chat.key, v, TtlOf(chat)) \/ SetMemory(chat.key, v, TtlOf(chat)))
    /\ chat' = [chat EXCEPT !.pc = "idle", !.payload = v]
    /\ chatLog' = chatLog \o <<ChatEvent(chat, "upstream", v, FALSE),
                               ChatEvent(chat, "set", v, FALSE),
                               ChatEvent(chat, "answer", v, FALSE)>>

\* the upstream call resolves and the payload is stored in Redis mode: the call
\* awaits redisClient.setex
ChatStoreRedis(p, v) ==
    /\ chat.pc = "upstream"
    /\ v \in Payloads(chat)
    /\ DoesStore(chat)
    /\ SetRedisCall(p, chat.key, v, TtlOf(chat))
    /\ chat' = [chat EXCEPT !.pc = "awaitSet", !.payload = v]
    /\ chatLog' = Append(chatLog, ChatEvent(chat, "upstream", v, FALSE))

\* Redis executes the store, or the command is rejected and set returns
ChatStoreReply(p) ==
    /\ chat.pc = "awaitSet"
    /\ (SetRedisApply(p) \/ SetRedisFail(p))
    /\ AfterSet(chat)

\* the upstream call rejects: the handler answers 500, getOrSet rejects; no store
ChatUpstreamFail ==
    /\ chat.pc = "upstream"
    /\ chat' = [chat EXCEPT !.pc = "idle"]
    /\ chatLog' = chatLog \o <<ChatEvent(chat, "upstream", Null, FALSE),
                               ChatEvent(chat, "failed", Null, FALSE)>>
    /\ UNCHANGED <<now, redisUp, rlVars, cacheVars, rotVars, keyCalls, ctxCall>>

----------------------------------------------------------------------------
(* APIKeyRotator *)

\* { success: 0, failure: 0, lastUsed: 0, cooldownUntil: 0 }
FreshHealth == [success |-> 0, failure |-> 0, lastUsed |-> 0, cooldownUntil |-> 0]

Range(seq) == {seq[i] : i \in DOMAIN seq}

\* Array.prototype.indexOf, 0-based, -1 when absent
IndexOf(seq, x) ==
    IF x \in Range(seq) THEN (CHOOSE i \in DOMAIN seq : seq[i] = x /\ \A j \in 1..(i - 1) : seq[j] # x) - 1
    ELSE -1

\* Array.prototype.splice(index, 1), index 0-based
Splice(seq, index) == [i \in 1..(Len(seq) - 1) |-> IF i <= index THEN seq[i] ELSE seq[i + 1]]

\* constructor: the singleton, with the keys OPENROUTER_API_KEYS names (env) not read yet
NewRotator(env) ==
    [env |-> env, keys |-> <<>>, currentIndex |-> 0,
     keyHealth |-> [k \in RotKeyPool |-> NoEntry], initialized |-> FALSE]

\* initialize: once, the keys of the environment replace this.keys when the variable
\* is set, and every key of this.keys gets a fresh health record
Initialize(r) ==
    IF r.initialized THEN r
    ELSE LET ks == IF r.env # <<>> THEN r.env ELSE r.keys
         IN  [r EXCEPT !.keys = ks,
                       !.keyHealth = [k \in RotKeyPool |->
                                         IF k \in Range(ks) THEN Some(FreshHealth)
                                         ELSE r.keyHealth[k]],
                       !.initialized = TRUE]

\* a cooldown that is never looked at
InCooldownNever(h, t) == FALSE

\* a cooldown that no clock ends
InCooldownForever(h, t) == h.cooldownUntil > 0

\* health.cooldownUntil > now
InCooldown(h, t) == h.cooldownUntil > t

\* the success rate alone, without the idle clause
UsableByRateOnly(h, t) ==
    LET total == h.success + h.failure
    IN  IF total > 0 THEN 2 * h.success >= total ELSE TRUE

\* successRate >= 0.5 || (now - health.lastUsed) > 300000, with
\* successRate = total > 0 ? success / total : 1.0
Usable(h, t) ==
    LET total == h.success + h.failure
    IN  (IF total > 0 THEN 2 * h.success >= total ELSE TRUE)
        \/ (t - h.lastUsed) > IdleThresholdMs

\* this.keys.reduce((a, b) => lastUsed(a) < lastUsed(b) ? a : b), from position i on
\* with accumulator a
RECURSIVE LruFrom(_, _, _, _)
LruFrom(keys, health, a, i) ==
    IF i > Len(keys) THEN a
    ELSE LruFrom(keys, health,
                 IF The(health[a]).lastUsed < The(health[keys[i]]).lastUsed THEN a ELSE keys[i],
                 i + 1)

LruKey(keys, health) == LruFrom(keys, health, keys[1], 2)

\* an answer of getNextKey: the key returned, or the error thrown
Returned(key, r) == [kind |-> "key", key |-> key, rot |-> r]
Threw(error, r) == [kind |-> error, key |-> "", rot |-> r]

\* a rotator that answers with no key instead of throwing
NoKeysReturnsNothing(r) == Returned("", r)

\* if ( this.keys.length === 0 ) throw new Error('No API keys configured. ...')
NoKeysConfigured(r) == Threw("Error", r)

\* getNextKey after initialize, at time t: the answer and the rotator afterwards
SelectKey(r, t) ==
    LET n == Len(r.keys)
        ci == r.currentIndex
        KeyAt(a) == r.keys[((ci + a) % n) + 1]
        Picks(a) == /\ ~InCooldown(The(r.keyHealth[KeyAt(a)]), t)
                    /\ Usable(The(r.keyHealth[KeyAt(a)]), t)
        hits == {a \in 0..(n - 1) : Picks(a)}
    IN  IF n = 0 THEN NoKeysConfigured(r)
        ELSE IF n = 1 THEN Returned(r.keys[1], r)
        ELSE IF ci >= n
        THEN \* this.keys[this.currentIndex] is undefined: health.cooldownUntil throws
             Threw("TypeError", [r EXCEPT !.currentIndex = (ci + 1) % n])
        ELSE IF hits # {}
        THEN LET a == CHOOSE x \in hits : \A y \in hits : x <= y
             IN  Returned(KeyAt(a),
                          [r EXCEPT !.currentIndex = (ci + a + 1) % n,
                                    !.keyHealth[KeyAt(a)] =
                                        Some([The(@) EXCEPT !.lastUsed = t])])
        ELSE LET lru == LruKey(r.keys, r.keyHealth)
             IN  Returned(lru, [r EXCEPT !.keyHealth[lru] =
                                            Some([The(@) EXCEPT !.lastUsed = t])])

\* what a returned call leaves for the properties to read: the operation, its
\* arguments and, for getNextKey, the key returned or the error thrown
RotRecord(op, key, status, answer) ==
    [op |-> op, key |-> key, status |-> status, answer |-> answer]

RotCall == rotCalls.calls < MaxRotCalls /\ rotCalls' = [rotCalls EXCEPT !.calls = @ + 1]

GetNextKey ==
    /\ RotCall
    /\ LET r == Initialize(rot)
           out == SelectKey(r, now)
       IN  /\ rot' = out.rot
           /\ rotOut' = Some(RotRecord("getNextKey", out.key, 0, out.kind))
    /\ UNCHANGED <<now, redisUp, rlVars, cacheVars, chatVars, keyCalls, ctxCall>>

\* reportSuccess: success capped at 1000, failure decays by one
ReportSuccess(key) ==
    /\ RotCall
    /\ rot' = IF rot.keyHealth[key] # NoEntry
              THEN [rot EXCEPT !.keyHealth[key] =
                       Some([The(@) EXCEPT !.success = Min2(@ + 1, CounterCap),
                                           !.failure = Max0(@ - 1)])]
              ELSE rot
    /\ rotOut' = Some(RotRecord("reportSuccess", key, 0, ""))
    /\ UNCHANGED <<now, redisUp, rlVars, cacheVars, chatVars, keyCalls, ctxCall>>

\* a classification that takes every error for an auth/quota error
IsAuthOrQuotaAlways(status) == TRUE

\* error.status === 429 || error.status === 401 || error.status === 403
IsAuthOrQuota(status) == status \in {429, 401, 403}

\* reportFailure(key, error) with error.status = status
ReportFailure(key, status) ==
    /\ RotCall
    /\ rot' = IF rot.keyHealth[key] # NoEntry
              THEN [rot EXCEPT !.keyHealth[key] =
                       Some([The(@) EXCEPT
                                !.failure = Min2(@ + 1, CounterCap),
                                !.cooldownUntil = IF IsAuthOrQuota(status)
                                                  THEN now + CooldownMs ELSE @])]
              ELSE rot
    /\ rotOut' = Some(RotRecord("reportFailure", key, status, ""))
    /\ UNCHANGED <<now, redisUp, rlVars, cacheVars, chatVars, keyCalls, ctxCall>>

AddKey(key) ==
    /\ RotCall
    /\ rot' = IF key \notin Range(rot.keys)
              THEN [rot EXCEPT !.keys = Append(@, key),
                               !.keyHealth[key] = Some(FreshHealth)]
              ELSE rot
    /\ rotOut' = Some(RotRecord("addKey", key, 0, ""))
    /\ UNCHANGED <<now, redisUp, rlVars, cacheVars, chatVars, keyCalls, ctxCall>>

RemoveKey(key) ==
    /\ RotCall
    /\ rot' = IF IndexOf(rot.keys, key) # -1
              THEN [rot EXCEPT !.keys = Splice(@, IndexOf(rot.keys, key)),
                               !.keyHealth[key] = NoEntry]
              ELSE rot
    /\ rotOut' = Some(RotRecord("removeKey", key, 0, ""))
    /\ UNCHANGED <<now, redisUp, rlVars, cacheVars, chatVars, keyCalls, ctxCall>>

\* Date.now() advances between two rotator calls
RotTick ==
    /\ rotCalls.ticks < MaxRotTicks
    /\ \E d \in RotTickSteps : now' = now + d
    /\ rotCalls' = [rotCalls EXCEPT !.ticks = @ + 1]
    /\ UNCHANGED <<redisUp, rlVars, cacheVars, chatVars, rot, rotOut, keyCalls, ctxCall>>

----------------------------------------------------------------------------
(* Environment *)

\* a key whose PEXPIRE deadline is reached no longer exists
ExpireAt(t, set, deadline) ==
    IF deadline # NoExpiry /\ t >= deadline THEN {} ELSE set

Tick ==
    /\ now < MaxTicks * MsPerSecond
    /\ \E d \in TickSteps :
        /\ now' = now + d
        /\ zset' = [k \in RLKeys |-> ExpireAt(now + d, zset[k], zexpire[k])]
        /\ zexpire' = [k \in RLKeys |->
                         IF ExpireAt(now + d, {1}, zexpire[k]) = {} THEN NoExpiry
                         ELSE zexpire[k]]
        /\ rkv' = [k \in CacheKeys |->
                     IF rkv[k] # NoEntry /\ now + d >= The(rkv[k]).expireAt THEN NoEntry
                     ELSE rkv[k]]
    /\ UNCHANGED <<redisUp, opts, limiter, userKeys, req, started, log,
                   cache, cops, cstarted, lastSet, lastGet, chatVars, rotVars, keyCalls, ctxCall>>

RedisFail ==
    /\ redisUp
    /\ redisUp' = FALSE
    /\ UNCHANGED <<now, rlVars, cacheVars, chatVars, rotVars, keyCalls, ctxCall>>

RedisRecover ==
    /\ ~redisUp
    /\ redisUp' = TRUE
    /\ UNCHANGED <<now, rlVars, cacheVars, chatVars, rotVars, keyCalls, ctxCall>>

----------------------------------------------------------------------------

\* no call of the chat path has started
ChatUntouched ==
    /\ chat = IdleChat
    /\ chatLog = <<>>

\* the rotator as constructed, not called
RotatorUntouched ==
    /\ rot = NewRotator(<<>>)
    /\ rotCalls = [calls |-> 0, ticks |-> 0]
    /\ rotOut = NoCall

\* generateKey not called
KeysUntouched == keyCalls = [prev |-> NoCall, last |-> NoCall]

\* processMessages not called
ContextUntouched == ctxCall = NoCall

\* the cache as constructed, not called
CacheUntouched ==
    /\ cache = NewCache(0, TRUE)
    /\ rkv = [k \in CacheKeys |-> NoEntry]
    /\ cops = [p \in CProcs |-> IdleOp]
    /\ cstarted = 0
    /\ lastSet = [k \in CacheKeys |-> NoCall]
    /\ lastGet = NoCall

\* the limiter as constructed with the router's default options, not called
LimiterUntouched ==
    /\ opts = [windowMs |-> DefaultWindowMs, maxRequests |-> DefaultMaxRequests]
    /\ limiter = NewLimiter(opts)
    /\ zset = [k \in RLKeys |-> {}]
    /\ zexpire = [k \in RLKeys |-> NoExpiry]
    /\ userKeys = InitUserKeys
    /\ req = [p \in Procs |-> IdleReq]
    /\ started = 0
    /\ log = <<>>

(* The limiter alone, serving callers without user API keys *)

InitLimiter ==
    /\ now = 0
    /\ redisUp \in BOOLEAN
    /\ opts \in [windowMs : WindowMsOpts, maxRequests : MaxRequestsOpts]
    /\ limiter = NewLimiter(opts)
    /\ zset = [k \in RLKeys |-> {}]
    /\ zexpire = [k \in RLKeys |-> NoExpiry]
    /\ userKeys = InitUserKeys
    /\ req = [p \in Procs |-> IdleReq]
    /\ started = 0
    /\ log = <<>>
    /\ CacheUntouched
    /\ ChatUntouched
    /\ RotatorUntouched
    /\ KeysUntouched
    /\ ContextUntouched

NextLimiter ==
    \/ \E p \in Procs, c \in PlainCallers : ReceivePlain(p, c)
    \/ \E p \in Procs : ExecRedis(p)
    \/ \E p \in Procs : ExecFail(p)
    \/ InitPingOk
    \/ InitPingFail
    \/ Tick
    \/ RedisFail
    \/ RedisRecover

SpecLimiter == InitLimiter /\ [][NextLimiter]_vars

(* An instance of the limiter with a window of two clock steps and a limit of one,
   taken up when its ping has been answered. In Redis mode the server is shared with
   other instances: the sorted set of client1 holds the entry of a request another
   instance admitted at time 0. In memory mode (ping rejected) the instance counts
   alone *)

RetryOpts == [windowMs |-> 2 * MsPerSecond, maxRequests |-> 1]

\* the member another instance stored; this instance's members are 1, 2, ...
OtherInstanceMember == 0

InitLimiterRetry ==
    /\ now = 0
    /\ redisUp \in BOOLEAN
    /\ opts = RetryOpts
    /\ limiter = [NewLimiter(opts) EXCEPT !.initPending = FALSE, !.redisAvailable = redisUp]
    /\ zset = [k \in RLKeys |->
                 IF redisUp /\ k = getKey("client1")
                 THEN PipelineSet({}, 0, 0 - opts.windowMs, OtherInstanceMember) ELSE {}]
    /\ zexpire = [k \in RLKeys |->
                    IF redisUp /\ k = getKey("client1") THEN opts.windowMs + ExpirySlackMs
                    ELSE NoExpiry]
    /\ userKeys = InitUserKeys
    /\ req = [p \in Procs |-> IdleReq]
    /\ started = 0
    /\ log = <<>>
    /\ CacheUntouched
    /\ ChatUntouched
    /\ RotatorUntouched
    /\ KeysUntouched
    /\ ContextUntouched

NextLimiterRetry ==
    \/ \E p \in Procs, c \in PlainCallers : ReceivePlain(p, c)
    \/ \E p \in Procs : ExecRedis(p)
    \/ Tick

SpecLimiterRetry == InitLimiterRetry /\ [][NextLimiterRetry]_vars

(* The limiter with the user-key middleware, configured as the router's premium
   tier: RateLimiter.create({windowMs: 60000, maxRequests: RATE_LIMIT_PREMIUM || 1000}) *)

PremiumTierOpts == [windowMs |-> DefaultWindowMs, maxRequests |-> StandardRateLimit]

InitUserKeyLimiter ==
    /\ now = 0
    /\ redisUp \in BOOLEAN
    /\ opts = PremiumTierOpts
    /\ limiter = NewLimiter(opts)
    /\ zset = [k \in RLKeys |-> {}]
    /\ zexpire = [k \in RLKeys |-> NoExpiry]
    /\ userKeys = InitUserKeys
    /\ req = [p \in Procs |-> IdleReq]
    /\ started = 0
    /\ log = <<>>
    /\ CacheUntouched
    /\ ChatUntouched
    /\ RotatorUntouched
    /\ KeysUntouched
    /\ ContextUntouched

NextUserKeyLimiter ==
    \/ \E p \in Procs : ReceivePlain(p, "client1")
    \/ \E p \in Procs, c \in UserKeyCallers : ReceiveUserKey(p, c)
    \/ \E p \in Procs, c \in UserKeyCallers : ReceiveInvalidKey(p, c)
    \/ \E p \in Procs : ValidateUpdate(p)
    \/ \E p \in Procs : ValidateUpdateFail(p)
    \/ \E p \in Procs : ExecRedis(p)
    \/ \E p \in Procs : ExecFail(p)
    \/ InitPingOk
    \/ InitPingFail
    \/ Tick
    \/ RedisFail
    \/ RedisRecover

SpecUserKeyLimiter == InitUserKeyLimiter /\ [][NextUserKeyLimiter]_vars

(* The same limiter, the standard key created with a small daily limit:
   createUserKeys(userId, {standardDailyLimit}) *)

StandardDailyLimitOpts == {1, 2}

InitDailyLimit ==
    /\ now = 0
    /\ redisUp \in BOOLEAN
    /\ opts = PremiumTierOpts
    /\ limiter = NewLimiter(opts)
    /\ zset = [k \in RLKeys |-> {}]
    /\ zexpire = [k \in RLKeys |-> NoExpiry]
    /\ \E d \in StandardDailyLimitOpts :
          userKeys = [InitUserKeys EXCEPT !["wgpt_std"].daily_limit = d]
    /\ req = [p \in Procs |-> IdleReq]
    /\ started = 0
    /\ log = <<>>
    /\ CacheUntouched
    /\ ChatUntouched
    /\ RotatorUntouched
    /\ KeysUntouched
    /\ ContextUntouched

SpecDailyLimit == InitDailyLimit /\ [][NextUserKeyLimiter]_vars

(* The response cache *)

InitCache ==
    /\ now = 0
    /\ redisUp \in BOOLEAN
    /\ LimiterUntouched
    /\ \E ttlEnv \in CacheTtlEnv, enabled \in BOOLEAN : cache = NewCache(ttlEnv, enabled)
    /\ rkv = [k \in CacheKeys |-> NoEntry]
    /\ cops = [p \in CProcs |-> IdleOp]
    /\ cstarted = 0
    /\ lastSet = [k \in CacheKeys |-> NoCall]
    /\ lastGet = NoCall
    /\ ChatUntouched
    /\ RotatorUntouched
    /\ KeysUntouched
    /\ ContextUntouched

NextCache ==
    \/ CacheInitPingOk
    \/ CacheInitPingFail
    \/ \E k \in CacheKeys : GetDisabled(k) /\ UNCHANGED chatVars
    \/ \E k \in CacheKeys : GetMemory(k) /\ UNCHANGED chatVars
    \/ \E p \in CProcs, k \in CacheKeys : GetRedisCall(p, k) /\ UNCHANGED chatVars
    \/ \E p \in CProcs : GetRedisReply(p) /\ UNCHANGED chatVars
    \/ \E p \in CProcs : GetRedisFail(p) /\ UNCHANGED chatVars
    \/ \E k \in CacheKeys, ttl \in TtlArgs :
           SetDisabled(k, Response(cstarted + 1), ttl) /\ UNCHANGED chatVars
    \/ \E k \in CacheKeys, ttl \in TtlArgs :
           SetMemory(k, Response(cstarted + 1), ttl) /\ UNCHANGED chatVars
    \/ \E p \in CProcs, k \in CacheKeys, ttl \in TtlArgs :
           SetRedisCall(p, k, Response(cstarted + 1), ttl) /\ UNCHANGED chatVars
    \/ \E p \in CProcs : SetRedisApply(p) /\ UNCHANGED chatVars
    \/ \E p \in CProcs : SetRedisFail(p) /\ UNCHANGED chatVars
    \/ \E k \in CacheKeys : DeleteMemory(k)
    \/ \E k \in CacheKeys : DeleteRedis(k)
    \/ ClearMemory
    \/ ClearRedis
    \/ Cleanup
    \/ Tick
    \/ RedisFail
    \/ RedisRecover

SpecCache == InitCache /\ [][NextCache]_vars

\* the interval init starts with setInterval(() => this.cleanup(), 60000) keeps firing:
\* a sweep that would change something is eventually run
SpecCacheSweep == InitCache /\ [][NextCache]_vars /\ WF_vars(Cleanup)

(* The chat path: the POST /chat handler and getOrSet calling the cache. The clock
   is held: an entry lives ChatTtl or DefaultTtl seconds, longer than any run of
   MaxChatCalls calls takes *)

InitChat ==
    /\ now = 0
    /\ redisUp \in BOOLEAN
    /\ LimiterUntouched
    /\ \E enabled \in BOOLEAN : cache = NewCache(0, enabled)
    /\ rkv = [k \in CacheKeys |-> NoEntry]
    /\ cops = [p \in CProcs |-> IdleOp]
    /\ cstarted = 0
    /\ lastSet = [k \in CacheKeys |-> NoCall]
    /\ lastGet = NoCall
    /\ ChatUntouched
    /\ RotatorUntouched
    /\ KeysUntouched
    /\ ContextUntouched

NextChat ==
    \/ \E in \in ChatInputs \cup GetOrSetInputs : ChatLookupSync(in)
    \/ \E p \in CProcs, in \in ChatInputs \cup GetOrSetInputs : ChatLookupRedis(p, in)
    \/ \E p \in CProcs : ChatLookupReply(p)
    \/ \E in \in ChatInputs : ChatSkipLookup(in)
    \/ \E v \in {Response(chat.n), EmptyPayload} : ChatAnswerNoStore(v)
    \/ \E v \in {Response(chat.n), EmptyPayload} : ChatStoreSync(v)
    \/ \E p \in CProcs, v \in {Response(chat.n), EmptyPayload} : ChatStoreRedis(p, v)
    \/ \E p \in CProcs : ChatStoreReply(p)
    \/ ChatUpstreamFail
    \/ CacheInitPingOk
    \/ CacheInitPingFail
    \/ RedisFail
    \/ RedisRecover

SpecChat == InitChat /\ [][NextChat]_vars

(* generateKey, called twice with any arguments *)

InitKeys ==
    /\ now = 0
    /\ redisUp = TRUE
    /\ LimiterUntouched
    /\ CacheUntouched
    /\ ChatUntouched
    /\ RotatorUntouched
    /\ KeysUntouched
    /\ ContextUntouched

NextKeys ==
    \E message \in KeyMessages, model \in KeyModels,
       temperature \in KeyTemperatures, system_prompt \in KeyPrompts :
        GenerateKeyCall(message, model, temperature, system_prompt)

SpecKeys == InitKeys /\ [][NextKeys]_vars

(* processMessages, called with any list of up to MaxListLen messages *)

InitContext ==
    /\ now = 0
    /\ redisUp = TRUE
    /\ LimiterUntouched
    /\ CacheUntouched
    /\ ChatUntouched
    /\ RotatorUntouched
    /\ KeysUntouched
    /\ ContextUntouched

NextContext ==
    \E messages \in MessageLists, maxTokens \in MaxTokensOpts,
       maxMessages \in MaxMessagesOpts :
        ProcessMessagesCall(messages, maxTokens, maxMessages)

SpecContext == InitContext /\ [][NextContext]_vars

(* The rotator *)

InitRotator ==
    /\ now = 2 * IdleThresholdMs
    /\ redisUp = TRUE
    /\ LimiterUntouched
    /\ CacheUntouched
    /\ ChatUntouched
    /\ \E env \in RotEnvs : rot = NewRotator(env)
    /\ rotCalls = [calls |-> 0, ticks |-> 0]
    /\ rotOut = NoCall
    /\ KeysUntouched
    /\ ContextUntouched

NextRotator ==
    \/ GetNextKey
    \/ \E k \in RotKeyPool : ReportSuccess(k)
    \/ \E k \in RotKeyPool, status \in FailureStatuses : ReportFailure(k, status)
    \/ \E k \in RotKeyPool : AddKey(k)
    \/ \E k \in RotKeyPool : RemoveKey(k)
    \/ RotTick

SpecRotator == InitRotator /\ [][NextRotator]_vars

(* The rotator after long service: the counters of k1 stand where that many reports
   have brought them, at the floor, next to it, next to the cap or at the cap *)

CounterEdges == {0, 1, CounterCap - 1, CounterCap}

InitRotatorWorn ==
    /\ now = 2 * IdleThresholdMs
    /\ redisUp = TRUE
    /\ LimiterUntouched
    /\ CacheUntouched
    /\ ChatUntouched
    /\ \E s \in CounterEdges, f \in CounterEdges :
           rot = [Initialize(NewRotator(<<"k1", "k2">>)) EXCEPT
                     !.keyHealth["k1"] =
                         Some([FreshHealth EXCEPT !.success = s, !.failure = f])]
    /\ rotCalls = [calls |-> 0, ticks |-> 0]
    /\ rotOut = NoCall
    /\ KeysUntouched
    /\ ContextUntouched

NextRotatorWorn ==
    \/ GetNextKey
    \/ \E k \in {"k1", "k2"} : ReportSuccess(k)
    \/ \E k \in {"k1", "k2"}, status \in FailureStatuses : ReportFailure(k, status)

SpecRotatorWorn == InitRotatorWorn /\ [][NextRotatorWorn]_vars

(* chunkMessage, called with any content of up to MaxContentLen characters and any
   chunk size from 1 to MaxChunkSize *)

NextChunks ==
    \E content \in Contents, maxChunkSize \in 1..MaxChunkSize :
        ChunkMessageCall(content, maxChunkSize)

SpecChunks == InitContext /\ [][NextChunks]_vars

----------------------------------------------------------------------------
(* Properties of the rate limiter *)

IsDecision(i) == log[i].kind = "decision"
SameKey(i, j) == getKey(log[i].caller) = getKey(log[j].caller)

\* the allowed checks of entry i's key whose check time lies in (lo, hi]
AllowedIn(i, lo, hi) ==
    {j \in DOMAIN log : /\ IsDecision(j) /\ log[j].allowed /\ SameKey(i, j)
                        /\ lo < log[j].now /\ log[j].now <= hi}

\* C1: for every key, the checks answered allowed=true whose check times lie in a
\* trailing windowMs interval never number more than the configured limit
\* options.maxRequests, for every windowMs and every limit >= 0.
C1_AllowedWithinConfiguredLimit ==
    \A i \in DOMAIN log :
        (IsDecision(i) /\ log[i].allowed)
            => Cardinality(AllowedIn(i, log[i].now - opts.windowMs, log[i].now))
                   <= opts.maxRequests

\* the member a Redis check inserted is still in the sorted set of its key
StillStored(i) == \E e \in zset[getKey(log[i].caller)] : e.member = log[i].id

\* C2: in shared-store mode the prune, count, insert and expire of a check act as
\* one unit, also for concurrent checks of one key: an admitted check, together with
\* the entries of earlier checks still stored, never exceeds the limit applied to it
\* (no two checks are admitted on the same stale count).
C2_NoLostUpdate ==
    \A i \in DOMAIN log :
        (IsDecision(i) /\ log[i].mode = "redis" /\ log[i].allowed /\ StillStored(i))
            => Cardinality({j \in 1..i : /\ IsDecision(j) /\ log[j].mode = "redis"
                                         /\ SameKey(i, j) /\ StillStored(j)})
                   <= log[i].limit

\* C2 witness: two checks of one key were in flight together in Redis mode; the one
\* received later has executed and was admitted on the last free place while the
\* earlier one still awaits its transaction.
C2_Witness ==
    \E i \in DOMAIN log, p \in Procs :
        /\ IsDecision(i) /\ log[i].mode = "redis" /\ log[i].allowed
        /\ log[i].count + 1 = log[i].limit
        /\ StillStored(i)
        /\ req[p].pc = "exec" /\ req[p].caller = log[i].caller /\ req[p].id < log[i].id

\* C3: a check answered allowed=false records no timestamp for its key, in
\* shared-store mode and in local mode.
C3_DeniedRecordsNothing ==
    \A i \in DOMAIN log :
        (IsDecision(i) /\ ~log[i].allowed) => ~log[i].recorded

\* C4: the first check of a key never seen before is admitted and reports
\* remaining = limit - 1.
C4_FirstCheckRemaining ==
    \A i \in DOMAIN log :
        (IsDecision(i) /\ \A j \in 1..(i - 1) : ~SameKey(i, j))
            => (log[i].allowed /\ log[i].remaining = log[i].limit - 1)

\* C5: every decision of checkLimit, allowed or denied, in either mode, has
\* 0 <= remaining <= limit (this.maxRequests) and reset = the check's now + windowMs.
C5_RemainingAndReset ==
    \A i \in DOMAIN log :
        IsDecision(i)
            => /\ 0 <= log[i].remaining
               /\ log[i].remaining <= log[i].limit
               /\ log[i].reset = log[i].now + limiter.windowMs

\* C5 witness: a denied decision whose count exceeds the limit, so that the clamp of
\* remaining at 0 acts.
C5_Witness ==
    \E i \in DOMAIN log :
        /\ IsDecision(i) /\ ~log[i].allowed
        /\ log[i].count > log[i].limit
        /\ log[i].remaining = 0

\* decision j is a check of decision i's key made at or after the reset time that the
\* denied decision i returned, and no check of that key was admitted between the two:
\* none answered between them, and none made later than i and answered before j
RetryAfterReset(i, j) ==
    /\ i < j
    /\ IsDecision(i) /\ IsDecision(j) /\ SameKey(i, j)
    /\ ~log[i].allowed
    /\ log[j].now >= log[i].reset
    /\ \A m \in DOMAIN log :
          (IsDecision(m) /\ SameKey(i, m) /\ log[m].allowed)
              => ~((i < m /\ m < j) \/ (log[i].now < log[m].now /\ m < j))

\* C27: reset is a conservative retry hint: when a check of key K is denied at time
\* t, a check of K made at or after the returned reset t + windowMs is allowed,
\* provided no check of K was admitted in between; denied retries in between do not
\* postpone the admission.
C27_RetryAtResetAllowed ==
    \A i \in DOMAIN log, j \in DOMAIN log : RetryAfterReset(i, j) => log[j].allowed

\* the decisions of caller c, in the order they were answered
DecisionsOf(c) ==
    SelectSeq([i \in DOMAIN log |-> i], LAMBDA i : IsDecision(i) /\ log[i].caller = c)

\* the timestamps retained for caller c's key in the store that decision e worked on
Retained(c, e) ==
    IF e.mode = "memory"
    THEN {limiter.memoryStore[getKey(c)][n] : n \in DOMAIN limiter.memoryStore[getKey(c)]}
    ELSE {x.score : x \in zset[getKey(c)]}

\* C28: after every check of key K made at time now, every timestamp retained for K
\* satisfies timestamp > now - windowMs, whether the check was allowed or denied:
\* stated of the last check answered for each key, whose store no later check has
\* touched.
C28_RetainedInsideWindow ==
    \A c \in Callers :
        LET d == DecisionsOf(c)
        IN  Len(d) > 0 =>
                LET e == log[d[Len(d)]]
                IN  \A ts \in Retained(c, e) : ts > e.now - limiter.windowMs

\* a denied check came when the entry of an earlier check had left the window, and
\* that entry is gone from the sorted set
C28_Witness ==
    \E i \in DOMAIN log, j \in DOMAIN log :
        /\ i < j /\ j = Len(log)
        /\ IsDecision(i) /\ IsDecision(j) /\ SameKey(i, j)
        /\ log[i].mode = "redis" /\ log[j].mode = "redis"
        /\ log[i].recorded
        /\ log[i].now <= log[j].now - limiter.windowMs
        /\ ~log[j].allowed
        /\ ~StillStored(i)

\* the validateKey calls of key c that answered valid: true: the requests that went
\* on to checkLimit, answered or still awaiting Redis
Validated(c) ==
    Cardinality({i \in DOMAIN log : log[i].caller = c /\ log[i].kind # "invalid"})
        + Cardinality({p \in Procs : req[p].caller = c /\ req[p].pc = "exec"})

\* C29: of a key with a positive daily limit D at most D validateKey calls succeed,
\* also when validations of the key run concurrently.
C29_AtMostDailyLimitValidated ==
    \A c \in UserKeyCallers :
        userKeys[c].daily_limit > 0 => Validated(c) <= userKeys[c].daily_limit

\* C6: with limit L, of L+1 checks of one fresh key within one window the first L
\* are allowed and the (L+1)th is denied with remaining = 0, answered with status 429
\* and a retry-after derived from reset.
C6_LimitPlusOneDenied ==
    \A c \in Callers :
        LET d == DecisionsOf(c)
            L == limiter.maxRequests
        IN  (Len(d) > L /\ \A n \in 1..(L + 1) : log[d[n]].now - log[d[1]].now < limiter.windowMs)
                => /\ \A n \in 1..L : log[d[n]].allowed
                   /\ ~log[d[L + 1]].allowed
                   /\ log[d[L + 1]].remaining = 0
                   /\ log[d[L + 1]].status = 429
                   /\ log[d[L + 1]].retryAfter
                          = CeilDiv(log[d[L + 1]].reset - log[d[L + 1]].at, MsPerSecond)

\* C7: when the shared store is unreachable, at startup or later, checkLimit still
\* returns a decision: no check ends in an error raised to the caller.
C7_StoreFailureNeverRaised ==
    \A i \in DOMAIN log : log[i].kind # "threw"

\* C8: the limit applied to the check of a caller using a user API key is the
\* per-minute quota of that key (standard 1,000, premium 10,000), whatever requests
\* of other callers are interleaved with it on the same limiter instance.
C8_LimitIsCallersQuota ==
    \A i \in DOMAIN log :
        (IsDecision(i) /\ IsUserKey(log[i].caller))
            => log[i].limit = userKeys[log[i].caller].rate_limit_per_minute

\* C40: the sliding-window limit of a key holds across the switch from memory mode to
\* Redis mode: a check admitted in Redis mode, counted together with the checks of
\* its key admitted in memory mode before the switch, stays within the limit applied
\* to it in the trailing window.
C40_LimitHoldsAcrossSwitch ==
    \A i \in DOMAIN log :
        (/\ IsDecision(i) /\ log[i].allowed /\ log[i].mode = "redis"
         /\ \E j \in 1..(i - 1) :
               j \in AllowedIn(i, log[i].now - limiter.windowMs, log[i].now)
               /\ log[j].mode = "memory")
            => Cardinality(AllowedIn(i, log[i].now - limiter.windowMs, log[i].now))
                   <= log[i].limit

----------------------------------------------------------------------------
(* Properties of the response cache *)

\* the last get that returned was called after the last set of its key, and its key
\* was not deleted or cleared since
GetFollowsSet ==
    /\ lastGet # NoCall
    /\ lastSet[The(lastGet).key] # NoCall
    /\ The(lastGet).call > The(lastSet[The(lastGet).key]).call

\* C9: after set(f, v, ttl), with f not set, deleted or cleared in between, get(f)
\* returns v before ttl seconds have elapsed and null once they have; stated for an
\* enabled cache, ttl >= 1 and calls in which no store command was rejected.
C9_GetAfterSet ==
    GetFollowsSet =>
        LET g == The(lastGet)
            s == The(lastSet[g.key])
        IN  (cache.enabled /\ s.ttl >= 1 /\ ~s.failed /\ ~g.failed)
                => IF g.at < s.at + s.ttl * MsPerSecond
                   THEN g.result = s.response
                   ELSE g.result = Null

\* C10: get never returns an entry whose stored expiry has passed: whatever it
\* returns was found with expires > the time of the get.
C10_NoExpiredEntryReturned ==
    (lastGet # NoCall /\ The(lastGet).result # Null)
        => (The(lastGet).found /\ The(lastGet).expires > The(lastGet).at)

\* C10 witness: a get found an entry still present in the memory map or in Redis
\* whose expiry had passed, and answered null.
C10_Witness ==
    /\ lastGet # NoCall
    /\ The(lastGet).found
    /\ The(lastGet).expires <= The(lastGet).at
    /\ The(lastGet).result = Null

\* local fallback mode (the ping of init failed) with an entry under key k whose
\* expiry has passed
MemoryExpired(k) ==
    /\ ~cache.initPending
    /\ ~cache.redisAvailable
    /\ cache.memoryCache[k] # NoEntry
    /\ The(cache.memoryCache[k]).expires < now

\* C12: in local fallback mode the cache runs its periodic sweep, so every entry of
\* the memory map whose expiry has passed is eventually removed (or replaced).
C12_ExpiredEntriesSwept ==
    \A k \in CacheKeys : MemoryExpired(k) ~> ~MemoryExpired(k)

\* C15: a read or write error of the backing store is never raised to the caller:
\* a get whose Redis command was rejected answers null (a miss), a set whose Redis
\* command was rejected returns normally.
C15_StoreErrorNeverRaised ==
    /\ (lastGet # NoCall /\ The(lastGet).failed)
           => (~The(lastGet).raised /\ The(lastGet).result = Null)
    /\ \A k \in CacheKeys :
           (lastSet[k] # NoCall /\ The(lastSet[k]).failed) => ~The(lastSet[k]).raised

\* C15 witness: a set and then a get of the same key were both rejected by Redis, and
\* both returned.
C15_Witness ==
    /\ GetFollowsSet
    /\ The(lastGet).failed
    /\ The(lastGet).result = Null
    /\ The(lastSet[The(lastGet).key]).failed

\* this step answers a get of an enabled cache
GetAnswered ==
    /\ lastGet' # lastGet
    /\ lastGet' # NoCall
    /\ The(lastGet').mode # "disabled"

\* C38: every get on an enabled cache increments exactly one of the hits and misses
\* counters, and a get that returns null is counted as a miss and never as a hit, in
\* Redis mode and in memory mode.
C38_OneCounterPerLookup ==
    [][GetAnswered =>
          /\ cache'.stats.hits + cache'.stats.misses
                 = cache.stats.hits + cache.stats.misses + 1
          /\ The(lastGet').result = Null =>
                 (cache'.stats.hits = cache.stats.hits
                  /\ cache'.stats.misses = cache.stats.misses + 1)]_vars

----------------------------------------------------------------------------
(* Properties of generateKey *)

KeyFields == {"message", "model", "temperature", "system_prompt"}

\* calls a and b differ in field f and in no other field
DifferOnlyIn(f, a, b) ==
    a[f] # b[f] /\ \A g \in KeyFields \ {f} : a[g] = b[g]

\* the two values JSON.stringify writes alike: a string and the array whose JSON text
\* it is (different types), or two of NaN, Infinity and null
WrittenAlike(f, a, b) ==
    \/ f = "message" /\ a[f].type # b[f].type
    \/ f = "temperature" /\ {a[f].type, b[f].type} \subseteq {"NaN", "Infinity", "null"}

----------------------------------------------------------------------------
(* Properties of the chat path *)

\* the memory map or Redis holds payload v under key k
CacheHolds(k, v) ==
    \/ (cache.memoryCache[k] # NoEntry /\ The(cache.memoryCache[k]).response = v)
    \/ (rkv[k] # NoEntry /\ Parse(The(rkv[k]).value).response = v)

\* event i belongs to a handler request that streams or carries an image
StreamOrImage(i) ==
    chatLog[i].kind = "chat" /\ (chatLog[i].stream \/ chatLog[i].image)

\* C11: no response of a streaming request and no response of a request carrying an
\* image is read from or written to the cache by the chat path: such a request makes
\* no lookup, and the payload of its answer is not held by the cache.
C11_StreamAndImageBypassCache ==
    \A i \in DOMAIN chatLog :
        StreamOrImage(i)
            => /\ chatLog[i].ev # "get"
               /\ (chatLog[i].ev = "set" => ~CacheHolds(chatLog[i].key, chatLog[i].value))

\* the last lookup of the chat path came right after a store under the same key, both
\* served by the same backing store (memory map or Redis) without a rejected command
StoreThenLookup ==
    /\ lastGet # NoCall
    /\ lastSet[The(lastGet).key] # NoCall
    /\ LET g == The(lastGet)
           s == The(lastSet[g.key])
       IN  /\ g.call = s.call + 1
           /\ s.mode = g.mode
           /\ g.mode # "disabled"
           /\ ~s.failed
           /\ ~g.failed

\* position of the last lookup in chatLog
LastLookup ==
    CHOOSE j \in DOMAIN chatLog :
        chatLog[j].ev = "get" /\ \A i \in DOMAIN chatLog : i > j => chatLog[i].ev # "get"

\* C13: a store followed immediately by a lookup (the handler's, or getOrSet's) with
\* the same fingerprint yields the stored payload with cached = true and without the
\* upstream call or generator, for every stored payload value; stated for an enabled
\* cache, store and lookup served by the same backing store, no rejected command.
C13_StoreThenLookupHits ==
    StoreThenLookup =>
        LET j == LastLookup
            stored == The(lastSet[The(lastGet).key]).response
        IN  /\ chatLog[j].value = stored
            /\ j + 1 \in DOMAIN chatLog
            /\ chatLog[j + 1].n = chatLog[j].n
            /\ chatLog[j + 1].ev = "answer"
            /\ chatLog[j + 1].cached
            /\ chatLog[j + 1].value = stored

\* this step sends a handler request to the upstream service after a lookup that missed
MissGoesUpstream ==
    chat.pc # "upstream" /\ chat'.pc = "upstream" /\ chat'.kind = "chat" /\ DoesLookup(chat')

\* this step ends a handler request that missed, after its upstream call
MissRequestEnds ==
    /\ chat.pc \in {"upstream", "awaitSet"}
    /\ chat.kind = "chat"
    /\ DoesLookup(chat)
    /\ chat'.pc = "idle"

\* C26: on every cache miss of the request path a credential is obtained from the
\* rotator (getNextKey) before the external call, the response is stored after the
\* call, and the outcome is then reported to the rotator (reportSuccess or
\* reportFailure): the rotator's last call is getNextKey when the request goes
\* upstream, and a report when the request ends.
C26_MissObtainsKeyThenReports ==
    [][/\ MissGoesUpstream
           => (rotOut' # NoCall /\ The(rotOut').op = "getNextKey")
       /\ MissRequestEnds
           => (rotOut' # NoCall /\ The(rotOut').op \in {"reportSuccess", "reportFailure"})]_vars

\* this step puts a new entry into the memory map or into Redis
EntryCreated ==
    \E k \in CacheKeys :
        \/ (cache'.memoryCache[k] # NoEntry /\ cache'.memoryCache[k] # cache.memoryCache[k])
        \/ (rkv'[k] # NoEntry /\ rkv'[k] # rkv[k])

\* call n looked up and missed
Missed(n) ==
    \E i \in DOMAIN chatLog' :
        chatLog'[i].n = n /\ chatLog'[i].ev = "get" /\ ~Truthy(chatLog'[i].value)

\* the upstream call of call n resolved
UpstreamResolved(n) ==
    \E i \in DOMAIN chatLog' :
        chatLog'[i].n = n /\ chatLog'[i].ev = "upstream" /\ chatLog'[i].value # Null

\* this step is the upstream call of the current call rejecting
UpstreamRejects ==
    /\ chat.pc = "upstream"
    /\ Len(chatLog') > Len(chatLog)
    /\ chatLog'[Len(chatLog')].ev = "failed"

\* C37: a cache entry is created only on a cache miss after the upstream call
\* completed successfully, and an upstream call that fails leaves the cache unchanged.
C37_EntryOnlyAfterMissAndSuccess ==
    [][/\ EntryCreated => (Missed(chat.n) /\ UpstreamResolved(chat.n))
       /\ UpstreamRejects => (cache'.memoryCache = cache.memoryCache /\ rkv' = rkv)]_vars

----------------------------------------------------------------------------
(* Properties of the rotator *)

\* this step is a call of getNextKey / of reportFailure
GetNextKeyStep ==
    rotCalls'.calls = rotCalls.calls + 1 /\ The(rotOut').op = "getNextKey"

ReportFailureStep ==
    rotCalls'.calls = rotCalls.calls + 1 /\ The(rotOut').op = "reportFailure"

\* the credentials configured when the call looks at them (initialize has run), and
\* the health record the call finds for credential k
Configured == Range(Initialize(rot).keys)
HealthBefore(k) == The(Initialize(rot).keyHealth[k])

\* credential k is in cooldown when the call is made
Cooling(k) == HealthBefore(k).cooldownUntil > now

\* C16: getNextKey never returns a credential that is in cooldown while at least one
\* configured credential is not in cooldown.
C16_NoCooldownKeyWhileOtherAvailable ==
    [][GetNextKeyStep =>
          ((The(rotOut').answer = "key" /\ \E k \in Configured : ~Cooling(k))
              => ~Cooling(The(rotOut').key))]_vars

\* C17: whatever calls came before, getNextKey returns one of the configured
\* credentials whenever at least one is configured; it does not throw.
C17_AlwaysReturnsConfiguredKey ==
    [][GetNextKeyStep =>
          (Configured # {}
              => (The(rotOut').answer = "key" /\ The(rotOut').key \in Configured))]_vars

\* C18: getNextKey called while no credential is configured throws the explicit
\* Error and returns no value.
C18_NoKeysThrows ==
    [][GetNextKeyStep => (Configured = {} => The(rotOut').answer = "Error")]_vars

\* C18 witness: getNextKey was called with no credential configured and threw.
C18_Witness ==
    /\ rotOut # NoCall
    /\ The(rotOut).op = "getNextKey"
    /\ rot.initialized
    /\ rot.keys = <<>>
    /\ The(rotOut).answer = "Error"

\* C19: a credential in cooldown after a failure of the auth/quota class is returned
\* by no getNextKey call made before the cooldown ends, as long as there are other
\* credentials and none of them has a recorded failure or is in cooldown.
C19_CooldownKeyNotReturned ==
    [][GetNextKeyStep =>
          \A k \in Configured :
              (/\ Cooling(k)
               /\ Configured \ {k} # {}
               /\ \A j \in Configured \ {k} : HealthBefore(j).failure = 0 /\ ~Cooling(j))
                  => ~(The(rotOut').answer = "key" /\ The(rotOut').key = k)]_vars

\* C19 witness: getNextKey was called with one of three credentials in cooldown and
\* no failure recorded for the other two, and returned one of those two.
C19_Witness ==
    /\ rotOut # NoCall
    /\ The(rotOut).op = "getNextKey"
    /\ The(rotOut).answer = "key"
    /\ Len(rot.keys) = 3
    /\ \E k \in Range(rot.keys) :
           /\ The(rot.keyHealth[k]).cooldownUntil > now
           /\ The(rotOut).key # k
           /\ \A j \in Range(rot.keys) \ {k} :
                  /\ The(rot.keyHealth[j]).failure = 0
                  /\ The(rot.keyHealth[j]).cooldownUntil = 0

\* C20: reportFailure puts the credential in cooldown for 60 s exactly when the
\* status is 401, 403 or 429; any other error only increments the failure counter
\* (capped at 1000) and leaves cooldownUntil as it was.
C20_CooldownOnlyForAuthOrQuota ==
    [][ReportFailureStep =>
          LET key == The(rotOut').key
              status == The(rotOut').status
          IN  IF rot.keyHealth[key] = NoEntry THEN rot' = rot
              ELSE LET h == The(rot.keyHealth[key])
                       g == The(rot'.keyHealth[key])
                   IN  /\ g.failure = (IF h.failure < 1000 THEN h.failure + 1 ELSE 1000)
                       /\ g.success = h.success
                       /\ g.lastUsed = h.lastUsed
                       /\ g.cooldownUntil = (IF status \in {401, 403, 429} THEN now + 60000
                                             ELSE h.cooldownUntil)]_vars

\* C20 witness: a credential reported a 429 and then, within the cooldown, a 500: two
\* failures are counted and cooldownUntil is still the one the 429 set.
C20_Witness ==
    /\ rotOut # NoCall
    /\ The(rotOut).op = "reportFailure"
    /\ The(rotOut).status = 500
    /\ rot.keyHealth[The(rotOut).key] # NoEntry
    /\ The(rot.keyHealth[The(rotOut).key]).failure = 2
    /\ The(rot.keyHealth[The(rotOut).key]).cooldownUntil = now + CooldownMs

\* C21: the success and the failure counter of every credential are never negative
\* and never above the cap of 1000, whatever number of reports came in.
C21_CountersBounded ==
    \A k \in RotKeyPool :
        rot.keyHealth[k] # NoEntry
            => /\ The(rot.keyHealth[k]).success \in 0..1000
               /\ The(rot.keyHealth[k]).failure \in 0..1000

\* C21 witness: a success was reported for a credential whose success counter stood
\* at the cap and whose failure counter stood at zero; both stayed.
C21_Witness ==
    /\ rotOut # NoCall
    /\ The(rotOut).op = "reportSuccess"
    /\ rotCalls.calls >= 2
    /\ The(rot.keyHealth[The(rotOut).key]).success = CounterCap
    /\ The(rot.keyHealth[The(rotOut).key]).failure = 0

\* the configured credentials in list order when the call looks at them
KeysBefore == Initialize(rot).keys

\* the success rate of credential k is at or above the floor of 0.5
RateAtFloor(k) ==
    LET h == HealthBefore(k)
    IN  h.success + h.failure > 0 => 2 * h.success >= h.success + h.failure

\* the call before this one was a getNextKey call that returned credential p
FollowsGetNextKey(p) ==
    /\ rotOut # NoCall
    /\ The(rotOut).op = "getNextKey"
    /\ The(rotOut).answer = "key"
    /\ The(rotOut).key = p

\* the credential after p in cyclic list order
Successor(p) == KeysBefore[((IndexOf(KeysBefore, p) + 1) % Len(KeysBefore)) + 1]

\* C30: selection is round-robin from the last position: while no credential is in
\* cooldown and all have a success rate at or above the floor, a getNextKey call over
\* n >= 2 credentials returns a credential, and when it follows a getNextKey call made
\* under the same conditions it returns the credential after that call's in cyclic
\* list order (so n consecutive calls return each credential exactly once).
C30_RoundRobin ==
    [][(/\ GetNextKeyStep
        /\ Len(KeysBefore) >= 2
        /\ \A k \in Configured : ~Cooling(k) /\ RateAtFloor(k))
          => /\ The(rotOut').answer = "key"
             /\ \A p \in Configured :
                   (/\ FollowsGetNextKey(p)
                    /\ \A k \in Configured :
                          HealthBefore(k).cooldownUntil <= HealthBefore(p).lastUsed)
                       => The(rotOut').key = Successor(p)]_vars

\* the round-robin position of this call is at credential k
PositionAt(k) ==
    /\ Len(KeysBefore) >= 2
    /\ rot.currentIndex < Len(KeysBefore)
    /\ KeysBefore[rot.currentIndex + 1] = k

\* a cooldown was set for credential k and its time has come
CooldownPassed(k) ==
    HealthBefore(k).cooldownUntil > 0 /\ HealthBefore(k).cooldownUntil <= now

\* credential k was last used more than the idle threshold ago
IdleLong(k) == now - HealthBefore(k).lastUsed > IdleThresholdMs

\* this call returns credential k
Returns(k) == The(rotOut').answer = "key" /\ The(rotOut').key = k

\* C31, as stated: at or after its cooldown-until a credential is returned when the
\* round-robin position reaches it.
C31_ReturnedAfterCooldown ==
    [][GetNextKeyStep =>
          \A k \in Configured : (PositionAt(k) /\ CooldownPassed(k)) => Returns(k)]_vars

\* C31: a credential leaves cooldown by timer expiry alone: at or after its
\* cooldown-until, with no explicit reset, getNextKey returns it when the round-robin
\* position reaches it, provided its success rate is at the floor or above or its
\* last use is more than the idle threshold ago.
C31_ReturnedAfterCooldownIfUsable ==
    [][GetNextKeyStep =>
          \A k \in Configured :
              (PositionAt(k) /\ CooldownPassed(k) /\ (RateAtFloor(k) \/ IdleLong(k)))
                  => Returns(k)]_vars

\* C31 witness: getNextKey returned a credential whose cooldown had been set and has
\* passed, with another credential configured.
C31_Witness ==
    /\ rotOut # NoCall
    /\ The(rotOut).op = "getNextKey"
    /\ The(rotOut).answer = "key"
    /\ Len(rot.keys) >= 2
    /\ The(rot.keyHealth[The(rotOut).key]).cooldownUntil > 0
    /\ The(rot.keyHealth[The(rotOut).key]).cooldownUntil <= now
    /\ The(rot.keyHealth[The(rotOut).key]).lastUsed = now

\* C32: no credential is starved for good: a credential that is not in cooldown and
\* whose last use is more than 300000 ms ago is returned when the round-robin
\* position reaches it, whatever its success rate and past failures.
C32_IdleCredentialReturned ==
    [][GetNextKeyStep =>
          \A k \in Configured :
              (PositionAt(k) /\ ~Cooling(k) /\ IdleLong(k)) => Returns(k)]_vars

\* C32 witness: getNextKey returned a credential with more failures than successes
\* while another credential was fit to be returned, so that it came from the loop and
\* not from the fallback.
C32_Witness ==
    /\ rotOut # NoCall
    /\ The(rotOut).op = "getNextKey"
    /\ The(rotOut).answer = "key"
    /\ LET k == The(rotOut).key
       IN  /\ The(rot.keyHealth[k]).failure > The(rot.keyHealth[k]).success
           /\ The(rot.keyHealth[k]).lastUsed = now
           /\ \E j \in Range(rot.keys) \ {k} :
                 /\ The(rot.keyHealth[j]).failure = 0
                 /\ The(rot.keyHealth[j]).cooldownUntil = 0

\* no configured credential is fit for the loop: each is in cooldown, or below the
\* success floor and not idle beyond the threshold
NoneFit ==
    /\ Configured # {}
    /\ \A k \in Configured : Cooling(k) \/ (~RateAtFloor(k) /\ ~IdleLong(k))

\* C33: when every configured credential is in cooldown or below the success floor
\* (and not idle beyond the threshold), getNextKey returns the least recently used
\* credential, one with the smallest lastUsed, and marks it as used now.
C33_FallbackToLeastRecentlyUsed ==
    [][(GetNextKeyStep /\ NoneFit)
          => /\ The(rotOut').answer = "key"
             /\ The(rotOut').key \in Configured
             /\ \A j \in Configured :
                   HealthBefore(The(rotOut').key).lastUsed <= HealthBefore(j).lastUsed
             /\ The(rot'.keyHealth[The(rotOut').key]).lastUsed = now]_vars

----------------------------------------------------------------------------
(* Properties of processMessages *)

\* the estimated token sum of a message list: ceil(length / 4) per message
RECURSIVE TokenSum(_, _)
TokenSum(messages, i) ==
    IF i > Len(messages) THEN 0
    ELSE estimateTokens(messages[i].len) + TokenSum(messages, i + 1)

\* the last call returned a result
Returned1 == ctxCall # NoCall /\ ~The(ctxCall).result.threw

\* input message i is in the output as it came in
Unmodified(i) ==
    \E j \in DOMAIN The(ctxCall).result.messages :
        The(ctxCall).result.messages[j] = The(ctxCall).messages[i]

\* C22: processMessages never returns a message list whose estimated token sum
\* exceeds the token ceiling.
C22_TokenSumWithinCeiling ==
    Returned1 =>
        TokenSum(The(ctxCall).result.messages, 1) <= The(ctxCall).result.maxTokens

\* the position of the first system message of the input, the one find() returns
IsFirstSystem(i) ==
    /\ The(ctxCall).messages[i].role = "system"
    /\ \A j \in 1..(i - 1) : The(ctxCall).messages[j].role # "system"

\* C23, as stated: every system message of the input is in the output in full.
C23_EverySystemMessageKept ==
    Returned1 =>
        \A i \in DOMAIN The(ctxCall).messages :
            The(ctxCall).messages[i].role = "system" => Unmodified(i)

\* C23: the first system message of the input of processMessages is always present
\* in the output, in full: it is never dropped by the sliding window and never
\* truncated.
C23_FirstSystemMessageKept ==
    Returned1 =>
        \A i \in DOMAIN The(ctxCall).messages : IsFirstSystem(i) => Unmodified(i)

\* the window closed on a turn message while the system message was kept
C23_Witness ==
    /\ Returned1
    /\ \E i \in DOMAIN The(ctxCall).messages : IsFirstSystem(i) /\ Unmodified(i)
    /\ \E j \in DOMAIN The(ctxCall).messages :
          The(ctxCall).messages[j].role = "user" /\ ~Unmodified(j)

\* C24: wasTruncated is true exactly when at least one input message was dropped or
\* truncated, and false when every input message is returned unmodified.
C24_WasTruncatedIffChanged ==
    Returned1 =>
        (The(ctxCall).result.wasTruncated
            <=> \E i \in DOMAIN The(ctxCall).messages : ~Unmodified(i))

\* the turn messages of the last call's input
TurnPositions == {i \in DOMAIN The(ctxCall).messages : The(ctxCall).messages[i].role # "system"}

\* the last call had a single turn message, which alone exceeds the ceiling
SingleOversized ==
    /\ ctxCall # NoCall
    /\ Cardinality(TurnPositions) = 1
    /\ \A i \in TurnPositions :
          CeilDiv(The(ctxCall).messages[i].len, 4) > The(ctxCall).result.maxTokens

\* the system message of the last call used the budget up
BudgetUsedUp ==
    \E i \in DOMAIN The(ctxCall).messages :
        /\ IsFirstSystem(i)
        /\ CeilDiv(The(ctxCall).messages[i].len, 4) >= The(ctxCall).result.maxTokens

\* C25: processMessages never throws on the budget-shaping edge cases: an empty list
\* yields an empty result, and a single message that alone exceeds the ceiling, also
\* when the budget is already used up, is returned truncated.
C25_EdgeCasesNeverThrow ==
    /\ (ctxCall # NoCall /\ The(ctxCall).messages = <<>>) =>
           /\ ~The(ctxCall).result.threw
           /\ The(ctxCall).result.messages = <<>>
           /\ ~The(ctxCall).result.wasTruncated
    /\ SingleOversized =>
           /\ ~The(ctxCall).result.threw
           /\ \A i \in TurnPositions :
                 \E j \in DOMAIN The(ctxCall).result.messages :
                     /\ The(ctxCall).result.messages[j].pos = i
                     /\ The(ctxCall).result.messages[j].truncated

\* a single oversized message came in after the system message had used the budget up
C25_Witness ==
    SingleOversized /\ BudgetUsedUp /\ ~The(ctxCall).result.threw

\* the turn (non-system) messages of the output, in output order
OutTurns == SelectSeq(The(ctxCall).result.messages, IsNotSystem)

\* input turn message i is in the output, whole or truncated
Retained34(i) == \E a \in DOMAIN OutTurns : OutTurns[a].pos = i

\* C34: the non-system messages processMessages returns are, in their original
\* oldest-to-newest order, a contiguous run of the newest turn messages of the input:
\* no turn message is kept while a newer one is dropped.
C34_NewestRunKept ==
    Returned1 =>
        /\ \A a, b \in DOMAIN OutTurns : a < b => OutTurns[a].pos < OutTurns[b].pos
        /\ \A i, j \in TurnPositions : (i < j /\ Retained34(i)) => Retained34(j)

\* two turn messages were kept and an older one was dropped
C34_Witness ==
    /\ Returned1
    /\ Len(OutTurns) >= 2
    /\ \E i \in TurnPositions : ~Retained34(i)

\* the truncated messages of the output
TruncatedOut == {a \in DOMAIN OutTurns : OutTurns[a].truncated}

\* C35: a truncated copy in the output fits the budget that remained when it was
\* made, whenever some budget remained; at most one message of the output is
\* truncated, and it is the oldest turn message retained.
C35_TruncatedCopyFits ==
    Returned1 =>
        /\ Cardinality(TruncatedOut) <= 1
        /\ \A a \in TruncatedOut :
              /\ a = 1
              /\ The(ctxCall).result.tokensRemaining > 0 =>
                     estimateTokens(OutTurns[a].len) <= The(ctxCall).result.tokensRemaining

\* C39: tokensUsed of the result is the sum of the estimated tokens of the messages
\* returned, a truncated message included.
C39_TokensUsedIsTokenSum ==
    Returned1 =>
        The(ctxCall).result.tokensUsed = TokenSum(The(ctxCall).result.messages, 1)

----------------------------------------------------------------------------
(* Properties of chunkMessage *)

\* chunks.join('')
RECURSIVE Joined(_, _)
Joined(chunks, i) ==
    IF i > Len(chunks) THEN <<>> ELSE chunks[i] \o Joined(chunks, i + 1)

\* C36: chunkMessage(content, maxChunkSize) returns chunks of at most maxChunkSize
\* characters each whose concatenation is the content, for every content and every
\* maxChunkSize >= 1.
C36_ChunksRebuildContent ==
    ctxCall # NoCall =>
        /\ \A i \in DOMAIN The(ctxCall).chunks :
              Len(The(ctxCall).chunks[i]) <= The(ctxCall).maxChunkSize
        /\ Joined(The(ctxCall).chunks, 1) = The(ctxCall).content

\* a chunk was cut at a sentence end before it reached the chunk size
C36_Witness ==
    /\ ctxCall # NoCall
    /\ \E i \in DOMAIN The(ctxCall).chunks :
          /\ i < Len(The(ctxCall).chunks)
          /\ Len(The(ctxCall).chunks[i]) < The(ctxCall).maxChunkSize
          /\ The(ctxCall).chunks[i][Len(The(ctxCall).chunks[i])] = "."

====
